---- MODULE Spec2Model ----
(***************************************************************************)
(* A model of the Mir9cc compiler pipeline (yomaytk/Mir9cc).               *)
(*                                                                         *)
(*   Spec        gen_ir (gen_ir.rs) followed by alloc_regs on the IR       *)
(*   SpecParse   the parser's scope chain, stack layout and prologue       *)
(*   SpecStruct  new_struct (parse.rs) on bounded member lists             *)
(*   SpecMain    main (main.rs): command line, stages, exit status         *)
(*   SpecStmt    stmt (parse.rs): declaration or expression statement      *)
(*   SpecEmit    gen_x86 (gen_x86.rs): the records of the global variables *)
(*                                                                         *)
(* Each specification moves its own group of variables and leaves the      *)
(* other groups at their idle values.                                      *)
(***************************************************************************)
EXTENDS Integers, Sequences, FiniteSets, TLC

VARIABLES
    \* ---- gen_ir / alloc_regs
    irpc,          \* position of main between gen_ir and alloc_regs
    funs,          \* program.funs: the functions generated so far
    nodes,         \* program.nodes: the function definitions lowered so far
    virt,          \* the IR of each function as -dump-ir1 would print it
    LABEL,         \* parse.rs LABEL, the label counter shared by all phases
    RETURN_LABEL,  \* gen_ir.rs RETURN_LABEL
    RETURN_REG,    \* gen_ir.rs RETURN_REG
    REGNO,         \* gen_ir.rs REGNO
    \* ---- parser: scopes and stack layout
    ENV,           \* parse.rs ENV: the scope frames, innermost first
    STACKSIZE,     \* parse.rs STACKSIZE
    ctl,           \* the constructs of the current function still open
    locals,        \* the variables add_var laid out in the current function
    fnode,         \* the node the last call of toplevel returned
    items,         \* top-level items parsed so far
    lastOp,        \* the parser step taken last
    \* ---- new_struct
    spc,           \* position inside new_struct
    mb_vec,        \* the member list new_struct is called with
    sty,           \* the struct type returned
    \* ---- main
    mpc,           \* position of main
    argv,          \* env::args()
    program,       \* the statements of the source file's function body
    dump_ir1,
    dump_ir2,
    stdout,        \* what main printed about itself
    ran,           \* the stages that ran, in order
    exit_status,   \* the status the process ended with, -1 while it runs
    \* ---- stmt: the test for a declaration
    tpc,           \* where the parser stands: "stmt", "for_init" or "done"
    toks,          \* the next two tokens of the input
    taken,         \* the routine the parser handed the input to
    \* ---- gen_x86: the global variables
    epc,           \* position of gen_x86
    gvars,         \* program.gvars
    gpos,          \* the index of the global variable the loop is at
    asm,           \* the records printed for the global variables so far
    \* ---- sema: walk
    semapc,        \* position of sema: "walk", "done" or "panic"
    seminput,      \* the statement walk is called on
    semresult,     \* what walk returned, or the panic it ended with
    \* ---- running the IR of one expression
    xpc,           \* "gen", "run", "done" or "panic"
    xbuild,        \* the build of the compiler: with overflow checks or not
    xnode,         \* the expression
    xmem0,         \* the memory before the code runs
    xcode,         \* the IR gen_expr made of it
    xres,          \* the register gen_expr returned
    xip,           \* the position of the next instruction
    xregs,         \* the values of the live registers
    xmem,          \* the memory cells, by address
    xran,          \* the positions executed so far
    \* ---- running the assembly of one function
    cpc,           \* "gen", "run", "done" or "crash"
    cfun,          \* the function gen is called on
    casm,          \* the instructions gen printed
    cip,           \* the position of the next instruction
    cregs0,        \* the registers when the function is entered
    cregs,         \* the registers
    cmem,          \* the memory, by address
    ccall,         \* the registers when the callee is entered
    \* ---- parse: the case lists of the switches
    swpc,          \* "parse" or "done"
    swbody,        \* the statements of the function body
    swst           \* SWITCHES, the lists attached to the switch nodes, status

irvars == <<irpc, funs, nodes, virt, LABEL, RETURN_LABEL, RETURN_REG, REGNO>>

parsevars == <<ENV, STACKSIZE, ctl, locals, fnode, items, lastOp>>

structvars == <<spc, mb_vec, sty>>

mainvars == <<mpc, argv, program, dump_ir1, dump_ir2, stdout, ran, exit_status>>

stmtvars == <<tpc, toks, taken>>

emitvars == <<epc, gvars, gpos, asm>>

semavars == <<semapc, seminput, semresult>>

execvars == <<xpc, xbuild, xnode, xmem0, xcode, xres, xip, xregs, xmem, xran>>

cpuvars == <<cpc, cfun, casm, cip, cregs0, cregs, cmem, ccall>>

switchvars == <<swpc, swbody, swst>>

auxvars ==
    <<stmtvars, emitvars, semavars, execvars, cpuvars, switchvars>>

\* What the run of a function's assembly leaves alone.
cpurest ==
    <<irvars, parsevars, structvars, mainvars, stmtvars, emitvars, semavars,
      execvars, switchvars>>

\* What the run of an expression's IR leaves alone.
execrest ==
    <<irvars, parsevars, structvars, mainvars, stmtvars, emitvars, semavars,
      cpuvars, switchvars>>

vars == <<irvars, parsevars, structvars, mainvars, auxvars>>

(***************************************************************************)
(* Bounds of the model.                                                    *)
(***************************************************************************)
MaxFuns == 2        \* functions per program
ChainLen == 8       \* longest right-nested sum 1+(1+(...)) among the bodies
ParseLabels == 2    \* labels the parser allocated before gen_ir starts
MaxVal == 2         \* operand values and cell contents are in -MaxVal..MaxVal
MaxByte == 200      \* the largest byte a memory cell holds
MaxCallArgs == 6    \* arguments of a call
MaxCase == 2        \* case values are in 1..MaxCase
MaxNest == 2        \* nesting of switches and of case labels

(***************************************************************************)
(* IR instructions (gen_ir.rs: IrOp, Ir).  An IrOp variant's payload is    *)
(* kept in the record: imm for IrAdd/IrSub/IrMul/IrXor(bool, _), k for     *)
(* IrXor(_, i32), size for IrLoad/IrStore/IrStoreArg, name and args for    *)
(* IrCall and IrLabelAddr.                                                 *)
(***************************************************************************)
Ir(op, lhs, rhs) ==
    [op |-> op, lhs |-> lhs, rhs |-> rhs, imm |-> FALSE, k |-> 0,
     size |-> 0, name |-> "", args |-> <<>>]

IrImmOp(op, lhs, rhs) == [Ir(op, lhs, rhs) EXCEPT !.imm = TRUE]

IrMem(op, size, lhs, rhs) == [Ir(op, lhs, rhs) EXCEPT !.size = size]

\* Function::new
Function(name, irs, stacksize) ==
    [name |-> name, irs |-> irs, stacksize |-> stacksize]

\* A mutation of Ir::bittype: every operator becomes a subtraction.
bittype_sub(ty) == Ir("IrSub", 0, 0)

\* Ir::bittype: the IR opcode of a binary operator token.
bittype(ty) ==
    CASE ty = "TokenAdd" -> Ir("IrAdd", 0, 0)
      [] ty = "TokenSub" -> Ir("IrSub", 0, 0)
      [] ty = "TokenStar" -> Ir("IrMul", 0, 0)
      [] ty = "TokenDiv" -> Ir("IrDiv", 0, 0)
      [] ty = "TokenLt" -> Ir("IrLt", 0, 0)
      [] ty = "TokenLe" -> Ir("IrLe", 0, 0)
      [] ty = "TokenShl" -> Ir("IrShl", 0, 0)
      [] ty = "TokenShr" -> Ir("IrShr", 0, 0)
      [] ty = "TokenMod" -> Ir("IrMod", 0, 0)
      [] ty = "TokenAmpersand" -> Ir("IrAnd", 0, 0)
      [] ty = "TokenOr" -> Ir("IrOr", 0, 0)
      [] ty = "TokenXor" -> [Ir("IrXor", 0, 0) EXCEPT !.k = 1]

(***************************************************************************)
(* The generator's state while one function is lowered: the code vector    *)
(* and the four counters it reads and writes.                              *)
(***************************************************************************)
push(st, ir) == [st EXCEPT !.code = Append(@, ir)]

\* A mutation of kill: the Kill instruction is forgotten.
kill_forgotten(r, st) == st

kill(r, st) == push(st, Ir("IrKill", r, 0))

label(r, st) == push(st, Ir("IrLabel", r, 0))

\* A mutation of jmp: the jump is forgotten.
jmp_forgotten(x, st) == st

jmp(x, st) == push(st, Ir("IrJmp", x, 0))

\* panic!: the lowering stops there; what it had produced is marked and is
\* thrown away by the caller.
gen_panic(st) == push(st, Ir("panic", 0, 0))

panicked(st) == \E i \in DOMAIN st.code : st.code[i].op = "panic"

load(ctype, dst, src, st) == push(st, IrMem("IrLoad", ctype.size, dst, src))

store(ctype, dst, src, st) == push(st, IrMem("IrStore", ctype.size, dst, src))

store_arg(ctype, offset, id, st) ==
    push(st, IrMem("IrStoreArg", ctype.size, offset, id))

\* A mutation of new_regno: the counter is read without being incremented.
new_regno_same(st) == st

\* new_regno: the counter is incremented, then read.
new_regno(st) == [st EXCEPT !.REGNO = @ + 1]

\* A mutation of new_label: the counter is read without being incremented.
new_label_same(st) == st

\* parse.rs new_label: the counter is incremented, then read.
new_label(st) == [st EXCEPT !.LABEL = @ + 1]

gen_inc_scale(ctype) == IF ctype.ty = "PTR" THEN ctype.ptr_to.size ELSE 1

\* `num as usize * gen_inc_scale(ctype)`: the usize product is kept as the
\* signed reading of its 64-bit pattern (num = -1 gives 2^64 - scale, read
\* back as -scale).
inc_imm(num, ctype) == num * gen_inc_scale(ctype)

RECURSIVE gen_expr(_, _), gen_lval(_, _), gen_stmt(_, _), gen_args(_, _, _),
          gen_stmts(_, _), kill_all(_, _)

\* gen_ir.rs 402-404: the arguments of a call, left to right.
gen_args(callarg, st, regs) ==
    IF callarg = <<>> THEN [st |-> st, regs |-> regs]
    ELSE LET rest(a) == gen_args(Tail(callarg), a.st, Append(regs, a.r))
         IN rest(gen_expr(Head(callarg), st))

\* gen_ir.rs 411-413
kill_all(regs, st) ==
    IF regs = <<>> THEN st ELSE kill_all(Tail(regs), kill(Head(regs), st))

gen_binop(irop, lhs, rhs, st) ==
    LET emit(a, b) ==
            [st |-> kill(b.r, push(b.st, Ir(irop, a.r, b.r))), r |-> a.r]
        right(a) == emit(a, gen_expr(rhs, a.st))
    IN right(gen_expr(lhs, st))

gen_pre_inc(ctype, lhs, st, num) ==
    LET emit(a) ==
            LET s1 == new_regno(a.st)
                r2 == s1.REGNO
                s2 == load(ctype, r2, a.r, s1)
                s3 == push(s2, IrImmOp("IrAdd", r2, inc_imm(num, ctype)))
                s4 == store(ctype, a.r, r2, s3)
            IN [st |-> kill(a.r, s4), r |-> r2]
    IN emit(gen_lval(lhs, st))

gen_post_inc(ctype, lhs, st, num) ==
    LET emit(a) ==
            [st |-> push(a.st, IrImmOp("IrSub", a.r, inc_imm(num, ctype))),
             r |-> a.r]
    IN emit(gen_pre_inc(ctype, lhs, st, num))

gen_lval(node, st) ==
    CASE node.op = "Deref" -> gen_expr(node.lhs, st)
      [] node.op = "Var" ->
            LET s1 == new_regno(st)
                r == s1.REGNO
            IN IF node.var.is_local
               THEN [st |-> push(s1, Ir("IrBpRel", r, node.var.offset)), r |-> r]
               ELSE [st |-> push(s1, [Ir("IrLabelAddr", r, 0)
                                        EXCEPT !.name = node.var.labelname]),
                     r |-> r]
      [] node.op = "Dot" ->
            LET emit(a) ==
                    [st |-> push(a.st, IrImmOp("IrAdd", a.r, node.ctype.offset)),
                     r |-> a.r]
            IN emit(gen_lval(node.expr, st))

gen_expr(node, st) ==
    CASE node.op = "Num" ->
            LET s1 == new_regno(st)
            IN [st |-> push(s1, Ir("IrImm", s1.REGNO, node.val)), r |-> s1.REGNO]
      [] node.op = "LogAnd" ->
            LET emit(a, x, b) ==
                    LET s3 == push(b.st, Ir("IrMov", a.r, b.r))
                        s4 == kill(b.r, s3)
                        s5 == push(s4, Ir("IrUnless", a.r, x))
                        s6 == push(s5, Ir("IrImm", a.r, 1))
                    IN [st |-> label(x, s6), r |-> a.r]
                right(a, s1) ==
                    emit(a, s1.LABEL,
                         gen_expr(node.rhs, push(s1, Ir("IrUnless", a.r, s1.LABEL))))
                left(a) == right(a, new_label(a.st))
            IN left(gen_expr(node.lhs, st))
      [] node.op = "LogOr" ->
            LET emit(a, y, b) ==
                    LET s6 == push(b.st, Ir("IrMov", a.r, b.r))
                        s7 == kill(b.r, s6)
                        s8 == push(s7, Ir("IrUnless", a.r, y))
                        s9 == push(s8, Ir("IrImm", a.r, 1))
                    IN [st |-> label(y, s9), r |-> a.r]
                right(a, x, s2) ==
                    LET y == s2.LABEL
                        s3 == push(s2, Ir("IrUnless", a.r, x))
                        s4 == push(s3, Ir("IrImm", a.r, 1))
                    IN emit(a, y, gen_expr(node.rhs, label(x, jmp(y, s4))))
                labels(a, s1) == right(a, s1.LABEL, new_label(s1))
                left(a) == labels(a, new_label(a.st))
            IN left(gen_expr(node.lhs, st))
      [] node.op = "BinaryTree" ->
            LET emit(a, b) ==
                    IF node.ty = "TokenTilde"
                    THEN [st |-> push(kill(b.r, b.st),
                                      [IrImmOp("IrXor", a.r, 1) EXCEPT !.k = -1]),
                          r |-> a.r]
                    ELSE [st |-> kill(b.r, push(b.st,
                                     [bittype(node.ty)
                                        EXCEPT !.lhs = a.r, !.rhs = b.r])),
                          r |-> a.r]
                right(a) == emit(a, gen_expr(node.rhs, a.st))
            IN right(gen_expr(node.lhs, st))
      [] node.op = "Var" ->
            LET emit(a) ==
                    [st |-> load(node.var.ctype, a.r, a.r, a.st), r |-> a.r]
            IN emit(gen_lval(node, st))
      [] node.op = "Dot" ->
            LET emit(a) == [st |-> load(node.ctype, a.r, a.r, a.st), r |-> a.r]
            IN emit(gen_lval(node, st))
      [] node.op = "EqTree" ->
            LET emit(a, b) ==
                    [st |-> kill(a.r, store(node.ctype, a.r, b.r, b.st)),
                     r |-> b.r]
                right(a) == emit(a, gen_expr(node.rhs, a.st))
            IN right(gen_lval(node.lhs, st))
      [] node.op = "Call" ->
            LET emit(a) ==
                    LET s1 == new_regno(a.st)
                        r == s1.REGNO
                        s2 == push(s1, [Ir("IrCall", r, 0)
                                          EXCEPT !.name = node.ident,
                                                 !.args = a.regs])
                    IN [st |-> kill_all(a.regs, s2), r |-> r]
            IN emit(gen_args(node.args, st, <<>>))
      [] node.op = "Deref" ->
            LET emit(a) ==
                    [st |-> load(node.lhs.ctype.ptr_to, a.r, a.r, a.st),
                     r |-> a.r]
            IN emit(gen_expr(node.lhs, st))
      [] node.op = "Addr" -> gen_lval(node.lhs, st)
      [] node.op = "EqEq" -> gen_binop("IrEqEq", node.lhs, node.rhs, st)
      [] node.op = "Ne" -> gen_binop("IrNe", node.lhs, node.rhs, st)
      [] node.op = "Not" ->
            LET emit(a) ==
                    LET s1 == new_regno(a.st)
                        r2 == s1.REGNO
                        s2 == push(s1, Ir("IrImm", r2, 0))
                        s3 == push(s2, Ir("IrEqEq", a.r, r2))
                    IN [st |-> kill(r2, s3), r |-> a.r]
            IN emit(gen_expr(node.expr, st))
      [] node.op = "Ternary" ->
            LET emit(c, y, e) ==
                    [st |-> label(y, kill(e.r, push(e.st, Ir("IrMov", c.r, e.r)))),
                     r |-> c.r]
                els(c, x, y, t) ==
                    LET s4 == push(t.st, Ir("IrMov", c.r, t.r))
                    IN emit(c, y,
                            gen_expr(node.els, label(x, jmp(y, kill(t.r, s4)))))
                then(c, x, y) ==
                    els(c, x, y,
                        gen_expr(node.then, push(c.st, Ir("IrUnless", c.r, x))))
                cond(x, s2) == then(gen_expr(node.cond, s2), x, s2.LABEL)
                labels(s1) == cond(s1.LABEL, new_label(s1))
            IN labels(new_label(st))
      [] node.op = "TupleExpr" ->
            LET right(a) == gen_expr(node.rhs, kill(a.r, a.st))
            IN right(gen_expr(node.lhs, st))
      [] node.op = "Neg" ->
            LET emit(a) == [st |-> push(a.st, Ir("IrNeg", a.r, 0)), r |-> a.r]
            IN emit(gen_expr(node.expr, st))
      [] node.op = "IncDec" ->
            IF node.selector = 1
            THEN gen_post_inc(node.ctype, node.lhs, st, 1)
            ELSE gen_post_inc(node.ctype, node.lhs, st, -1)
      [] node.op = "StmtExpr" ->
            LET emit(r, s3) ==
                    [st |-> [label(s3.RETURN_LABEL, s3)
                               EXCEPT !.RETURN_LABEL = st.RETURN_LABEL,
                                      !.RETURN_REG = st.RETURN_REG],
                     r |-> r]
                body(s2) == emit(s2.RETURN_REG, gen_stmt(node.body, s2))
                enter(s1) == body([s1 EXCEPT !.RETURN_LABEL = s1.LABEL,
                                             !.RETURN_REG = s1.REGNO])
            IN enter([st EXCEPT !.LABEL = @ + 1, !.REGNO = @ + 1])

\* gen_ir.rs 532-534: the statements of a compound statement, in order.
gen_stmts(stmts, st) ==
    IF stmts = <<>> THEN st
    ELSE gen_stmts(Tail(stmts), gen_stmt(Head(stmts), st))

gen_stmt(node, st) ==
    CASE node.op = "NULL" -> st
      [] node.op = "Ret" ->
            LET emit(a) ==
                    IF a.st.RETURN_LABEL > 0
                    THEN jmp(a.st.RETURN_LABEL,
                             kill(a.r, push(a.st,
                                            Ir("IrMov", a.st.RETURN_REG, a.r))))
                    ELSE kill(a.r, push(a.st, Ir("IrRet", a.r, 0)))
            IN emit(gen_expr(node.lhs, st))
      [] node.op = "Expr" ->
            LET emit(a) == kill(a.r, a.st)
            IN emit(gen_expr(node.lhs, st))
      [] node.op = "IfThen" ->
            LET emit(x1, x2, s4) ==
                    IF node.has_else
                    THEN label(x2, gen_stmt(node.elthen, label(x1, jmp(x2, s4))))
                    ELSE label(x1, s4)
                then(a, x1, s2) ==
                    emit(x1, s2.LABEL,
                         gen_stmt(node.then,
                                  kill(a.r, push(s2, Ir("IrUnless", a.r, x1)))))
                labels(a, s1) == then(a, s1.LABEL, new_label(s1))
                cond(a) == labels(a, new_label(a.st))
            IN cond(gen_expr(node.cond, st))
      [] node.op = "CompStmt" -> gen_stmts(node.stmts, st)
      [] node.op = "For" ->
            LET emit(x, y, s4) ==
                    label(node.break_label,
                          label(y, jmp(x, gen_stmt(node.inc,
                                                   gen_stmt(node.body, s4)))))
                test(y, c) == kill(c.r, push(c.st, Ir("IrUnless", c.r, y)))
                cond(x, y, s3) ==
                    IF node.cond.op = "NULL" THEN emit(x, y, s3)
                    ELSE emit(x, y, test(y, gen_expr(node.cond, s3)))
                init(x, s2) ==
                    cond(x, s2.LABEL, label(x, gen_stmt(node.init, s2)))
                labels(s1) == init(s1.LABEL, new_label(s1))
            IN labels(new_label(st))
      [] node.op = "DoWhile" ->
            LET emit(x, c) ==
                    label(node.break_label,
                          kill(c.r, push(c.st, Ir("IrIf", c.r, x))))
                body(s1) ==
                    emit(s1.LABEL,
                         gen_expr(node.cond,
                                  gen_stmt(node.body, label(s1.LABEL, s1))))
            IN body(new_label(st))
      [] node.op = "VarDef" ->
            IF node.has_init
            THEN LET emit(a) ==
                         LET s1 == new_regno(a.st)
                             r1 == s1.REGNO
                             s2 == push(s1, Ir("IrBpRel", r1, node.var.offset))
                             s3 == store(node.var.ctype, r1, a.r, s2)
                         IN kill(a.r, kill(r1, s3))
                 IN emit(gen_expr(node.init, st))
            ELSE st
      [] node.op = "Break" -> jmp(node.jmp_point, st)
      [] OTHER -> gen_panic(st)

\* gen_ir.rs 594-605: one StoreArg per parameter.
RECURSIVE gen_params(_, _, _)
gen_params(args, i, st) ==
    IF i >= Len(args) THEN st
    ELSE gen_params(args, i + 1,
                    store_arg(args[i + 1].var.ctype, args[i + 1].var.offset, i, st))

\* One iteration of gen_ir's loop over program.nodes, for a function that is
\* not extern: the counters seen by the iteration and the Function it pushes.
gen_ir_func(funode, label0, retlabel0, retreg0) ==
    LET st0 == [code |-> <<>>, REGNO |-> 1, LABEL |-> label0,
                RETURN_LABEL |-> retlabel0, RETURN_REG |-> retreg0]
        done(st1) ==
            [st |-> st1,
             fun |-> Function(funode.name, st1.code, funode.stacksize)]
    IN done(gen_stmt(funode.body, gen_params(funode.args, 0, st0)))

(***************************************************************************)
(* Types (parse.rs: Type, INT_TY, CHAR_TY, VOID_TY, NULL_TY, BOOL_TY).     *)
(***************************************************************************)
Type(ty, size, align) ==
    [ty |-> ty, size |-> size, align |-> align, offset |-> 0, len |-> 0]

INT_TY == Type("INT", 4, 4)

CHAR_TY == Type("CHAR", 1, 1)

VOID_TY == Type("VOID", 0, 0)

NULL_TY == Type("NULL", 0, 0)

BOOL_TY == Type("BOOL", 1, 1)

\* Type::ptr_to
ptr_to(base) ==
    [ty |-> "PTR", size |-> 8, align |-> 8, offset |-> 0, len |-> 0,
     ptr_to |-> base]

\* Type::ary_of
ary_of(base, len) ==
    [ty |-> "ARY", size |-> base.size * len, align |-> base.align,
     offset |-> 0, len |-> len, ary_to |-> base]

(***************************************************************************)
(* AST nodes as gen_ir.rs matches them (NodeType::Num, LogAnd, ...).       *)
(***************************************************************************)
Num(val) == [op |-> "Num", val |-> val, ctype |-> INT_TY]

Binary(op, lhs, rhs) == [op |-> op, lhs |-> lhs, rhs |-> rhs]

BinaryTree(ty, lhs, rhs) ==
    [op |-> "BinaryTree", ty |-> ty, lhs |-> lhs, rhs |-> rhs]

LocalVar(ctype, offset) ==
    [op |-> "Var", ctype |-> ctype,
     var |-> [is_local |-> TRUE, offset |-> offset, labelname |-> "",
              ctype |-> ctype]]

GlobalVar(ctype, name) ==
    [op |-> "Var", ctype |-> ctype,
     var |-> [is_local |-> FALSE, offset |-> 0, labelname |-> name,
              ctype |-> ctype]]

Dot(ctype, expr) == [op |-> "Dot", ctype |-> ctype, expr |-> expr]

EqTree(ctype, lhs, rhs) ==
    [op |-> "EqTree", ctype |-> ctype, lhs |-> lhs, rhs |-> rhs]

Call(ident, args) == [op |-> "Call", ident |-> ident, args |-> args]

Unary(op, expr) == [op |-> op, expr |-> expr]

Deref(lhs) == [op |-> "Deref", lhs |-> lhs]

Addr(lhs) == [op |-> "Addr", lhs |-> lhs]

Ternary(cond, then, els) ==
    [op |-> "Ternary", cond |-> cond, then |-> then, els |-> els]

IncDec(ctype, selector, lhs) ==
    [op |-> "IncDec", ctype |-> ctype, selector |-> selector, lhs |-> lhs]

StmtExpr(body) == [op |-> "StmtExpr", body |-> body]

NullStmt == [op |-> "NULL"]

Ret(lhs) == [op |-> "Ret", lhs |-> lhs]

ExprStmt(lhs) == [op |-> "Expr", lhs |-> lhs]

IfThen(cond, then) ==
    [op |-> "IfThen", cond |-> cond, then |-> then, has_else |-> FALSE,
     elthen |-> NullStmt]

IfThenElse(cond, then, elthen) ==
    [op |-> "IfThen", cond |-> cond, then |-> then, has_else |-> TRUE,
     elthen |-> elthen]

CompStmt(stmts) == [op |-> "CompStmt", stmts |-> stmts]

For(init, cond, inc, body, break_label) ==
    [op |-> "For", init |-> init, cond |-> cond, inc |-> inc, body |-> body,
     break_label |-> break_label]

DoWhile(body, cond, break_label) ==
    [op |-> "DoWhile", body |-> body, cond |-> cond,
     break_label |-> break_label]

VarDefInit(ctype, offset, init) ==
    [op |-> "VarDef", has_init |-> TRUE, init |-> init,
     var |-> [is_local |-> TRUE, offset |-> offset, labelname |-> "",
              ctype |-> ctype]]

VarDef(ctype, offset) ==
    [op |-> "VarDef", has_init |-> FALSE, init |-> NullStmt,
     var |-> [is_local |-> TRUE, offset |-> offset, labelname |-> "",
              ctype |-> ctype]]

Break(jmp_point) == [op |-> "Break", jmp_point |-> jmp_point]

Continue == [op |-> "Continue"]

\* NodeType::Func(ctype, name, args, body, stacksize), not extern.
Func(name, args, body, stacksize) ==
    [op |-> "Func", name |-> name, args |-> args, body |-> body,
     stacksize |-> stacksize]


(***************************************************************************)
(* The function bodies the model lowers.  Every arm of gen_expr, gen_lval  *)
(* and gen_stmt occurs in some body.                                       *)
(***************************************************************************)
X == LocalVar(INT_TY, 4)

P == LocalVar(ptr_to(INT_TY), 16)

G == GlobalVar(INT_TY, "g")

S == LocalVar(Type("STRUCT", 8, 4), 24)

MemberY == [INT_TY EXCEPT !.offset = 4]

RECURSIVE Chain(_)
\* 1 + (1 + (... + 1)) with n literals: n registers are in use at its deepest.
Chain(n) == IF n <= 1 THEN Num(1) ELSE BinaryTree("TokenAdd", Num(1), Chain(n - 1))

Call6 == Call("f", <<Num(1), Num(2), Num(3), Num(4), Num(5), Num(6)>>)

\* ({ 1; }), ({ if (x) return 1; else return 0; }), ({ return ({ return x; }); })
StmtExpr1 == StmtExpr(CompStmt(<<ExprStmt(Num(1))>>))

StmtExpr2 == StmtExpr(CompStmt(<<IfThenElse(X, Ret(Num(1)), Ret(Num(0)))>>))

StmtExpr3 == StmtExpr(CompStmt(<<Ret(StmtExpr(CompStmt(<<Ret(X)>>)))>>))

\* { return 1+2; }
Return1Plus2 == CompStmt(<<Ret(BinaryTree("TokenAdd", Num(1), Num(2)))>>)

Bodies ==
    { CompStmt(<<Ret(Chain(n))>>) : n \in (ChainLen - 1)..ChainLen }
    \cup
    { Return1Plus2,
      CompStmt(<<ExprStmt(Call("f", <<Num(1), X>>)),
                 Ret(BinaryTree("TokenAdd", Num(1), Call6))>>),
      CompStmt(<<ExprStmt(Binary("LogAnd", Num(1), X)),
                 ExprStmt(Binary("LogOr", X, Num(0))),
                 Ret(Ternary(X, Num(1), G))>>),
      CompStmt(<<ExprStmt(StmtExpr1), ExprStmt(StmtExpr2), Ret(StmtExpr3)>>),
      CompStmt(<<ExprStmt(BinaryTree("TokenTilde", X, Num(0))),
                 Ret(Unary("Neg", Num(1)))>>),
      CompStmt(<<ExprStmt(Binary("EqEq", X, Num(1))), Ret(Binary("Ne", X, G))>>),
      CompStmt(<<ExprStmt(Binary("TupleExpr", Num(1), X)), Ret(Unary("Not", X))>>),
      CompStmt(<<ExprStmt(EqTree(INT_TY, Deref(P), Deref(P))),
                 Ret(EqTree(INT_TY, Dot(MemberY, S), Dot(MemberY, S)))>>),
      CompStmt(<<ExprStmt(Addr(X)), ExprStmt(IncDec(INT_TY, 1, X)),
                 Ret(IncDec(ptr_to(INT_TY), 2, P))>>),
      CompStmt(<<IfThen(X, Ret(Num(1))),
                 IfThenElse(Binary("LogOr", X, G), ExprStmt(Num(1)),
                            Ret(Num(0)))>>),
      CompStmt(<<For(VarDefInit(INT_TY, 8, Num(0)),
                     BinaryTree("TokenLt", X, Num(3)),
                     ExprStmt(IncDec(INT_TY, 1, X)), Break(1), 1),
                 For(NullStmt, NullStmt, NullStmt, CompStmt(<<Break(2)>>), 2)>>),
      CompStmt(<<DoWhile(ExprStmt(EqTree(INT_TY, X, Num(1))), X, 1),
                 VarDef(INT_TY, 8), NullStmt,
                 VarDefInit(INT_TY, 8, Ternary(X, Num(1), Num(2))),
                 Ret(X)>>) }

Param == VarDef(INT_TY, 4)

FuncNodes ==
    { Func("main", <<>>, b, 32) : b \in Bodies }
    \cup { Func("f", <<Param, VarDef(ptr_to(INT_TY), 16)>>, CompStmt(<<Ret(X)>>), 16) }


(***************************************************************************)
(* Register operands of an instruction.  Ir::tostr prints these fields     *)
(* with the r prefix; the other fields hold immediates, labels, offsets.   *)
(***************************************************************************)
UsesLhs(ir) == ir.op \notin {"IrLabel", "IrJmp", "IrStoreArg", "IrNop"}

UsesRhs(ir) ==
    \/ ir.op \in {"IrMov", "IrDiv", "IrLt", "IrLe", "IrEqEq", "IrNe", "IrOr",
                  "IrAnd", "IrShl", "IrShr", "IrMod", "IrStore", "IrLoad"}
    \/ ir.op \in {"IrAdd", "IrSub", "IrMul", "IrXor"} /\ ~ir.imm

RegsOf(ir) ==
    (IF UsesLhs(ir) THEN <<ir.lhs>> ELSE <<>>)
    \o (IF UsesRhs(ir) THEN <<ir.rhs>> ELSE <<>>)
    \o (IF ir.op = "IrCall" THEN ir.args ELSE <<>>)

Range(seq) == { seq[i] : i \in DOMAIN seq }

\* The registers a code vector references, and where.
RegsIn(code) == UNION { Range(RegsOf(code[i])) : i \in DOMAIN code }

Refs(code, r) == { i \in DOMAIN code : r \in Range(RegsOf(code[i])) }

(***************************************************************************)
(* The emitter's register tables (gen_x86.rs).                             *)
(***************************************************************************)
REG64_short == <<"r10", "r11", "rbx", "r12", "r13", "r14">>

REG64 == <<"r10", "r11", "rbx", "r12", "r13", "r14", "r15">>

(***************************************************************************)
(* alloc_regs: linear scan over one function's IR.  First pass: the index  *)
(* of the first and of the last reference of every virtual register.       *)
(* Second pass: at each position the slots of the registers whose last     *)
(* use lies before it go back to the free list, then every operand not     *)
(* yet assigned pops a slot (fatal if the list is empty); the operands     *)
(* are rewritten and Kill becomes Nop.                                     *)
(***************************************************************************)
NumPhysRegs == 7

\* First pass: the first and the last position referencing each register.
RECURSIVE Intervals(_, _, _)
Intervals(code, pos, iv) ==
    IF pos > Len(code) THEN iv
    ELSE LET here == [r \in Range(RegsOf(code[pos])) |-> pos]
         IN Intervals(code, pos + 1,
                      [first |-> iv.first @@ here, last |-> here @@ iv.last])

\* The slot of r is returned before position pos is processed.
Expired(last, r, pos) == last[r] < pos

\* A mutation of the free list: one slot fewer.
FreeList_short == [i \in 1..(NumPhysRegs - 1) |-> NumPhysRegs - 1 - i]

\* All slots free; the first pop yields slot 0.
FreeList == [i \in 1..NumPhysRegs |-> NumPhysRegs - i]

\* A mutation of the pop: the slot handed out stays on the free list.
Pop_kept(free) == free

\* The free list after its last slot was handed out.
Pop(free) == SubSeq(free, 1, Len(free) - 1)

RECURSIVE Release(_, _, _, _)
Release(a, last, pos, todo) ==
    IF todo = {} THEN a
    ELSE LET r == CHOOSE x \in todo : \A y \in todo : x <= y
             b == IF Expired(last, r, pos)
                  THEN [a EXCEPT !.free = Append(@, a.map[r]),
                                 !.held = @ \ {r}]
                  ELSE a
         IN Release(b, last, pos, todo \ {r})

RECURSIVE Assign(_, _)
Assign(a, regs) ==
    IF regs = <<>> \/ ~a.ok THEN a
    ELSE LET r == Head(regs)
         IN IF r \in DOMAIN a.map THEN Assign(a, Tail(regs))
            ELSE IF a.free = <<>> THEN [a EXCEPT !.ok = FALSE]
            ELSE Assign([a EXCEPT !.map = (r :> a.free[Len(a.free)]) @@ @,
                                  !.free = Pop(@),
                                  !.held = @ \cup {r}],
                        Tail(regs))

MapSeq(map, seq) == [i \in DOMAIN seq |-> map[seq[i]]]

Rewrite(ir, map) ==
    [ir EXCEPT !.op = IF @ = "IrKill" THEN "IrNop" ELSE @,
               !.lhs = IF UsesLhs(ir) THEN map[@] ELSE @,
               !.rhs = IF UsesRhs(ir) THEN map[@] ELSE @,
               !.args = IF ir.op = "IrCall" THEN MapSeq(map, @) ELSE @]

RECURSIVE Scan(_, _, _, _)
Scan(code, last, pos, a) ==
    IF pos > Len(code) \/ ~a.ok THEN a
    ELSE LET b == Assign(Release(a, last, pos, a.held), RegsOf(code[pos]))
         IN IF ~b.ok THEN b
            ELSE Scan(code, last, pos + 1,
                      [b EXCEPT !.out = Append(@, Rewrite(code[pos], b.map))])

alloc_fun(code) ==
    LET iv == Intervals(code, 1, [first |-> <<>>, last |-> <<>>])
    IN Scan(code, iv.last, 1,
            [free |-> FreeList, map |-> <<>>, held |-> {}, out |-> <<>>,
             ok |-> TRUE])

\* alloc_regs(&mut program): every function in turn; the first exhaustion is
\* fatal.
RECURSIVE alloc_funs(_, _)
alloc_funs(fs, done) ==
    IF fs = <<>> THEN [ok |-> TRUE, funs |-> done]
    ELSE LET a == alloc_fun(Head(fs).irs)
         IN IF ~a.ok THEN [ok |-> FALSE, funs |-> done]
            ELSE alloc_funs(Tail(fs),
                            Append(done, [Head(fs) EXCEPT !.irs = a.out]))

alloc_regs(fs) == alloc_funs(fs, <<>>)

(***************************************************************************)
(* Spec: main from gen_ir to the entry of gen_x86.                         *)
(***************************************************************************)
IrInit ==
    /\ irpc = "gen_ir"
    /\ funs = <<>>
    /\ nodes = <<>>
    /\ virt = <<>>
    /\ LABEL = ParseLabels
    /\ RETURN_LABEL = 0
    /\ RETURN_REG = 0
    /\ REGNO = 1

\* gen_ir, one iteration of its loop: a function definition.
GenIrFunc ==
    /\ irpc = "gen_ir"
    /\ Len(funs) < MaxFuns
    /\ \E funode \in FuncNodes :
          \E g \in {gen_ir_func(funode, LABEL, RETURN_LABEL, RETURN_REG)} :
             /\ funs' = Append(funs, g.fun)
             /\ nodes' = Append(nodes, funode)
             /\ LABEL' = g.st.LABEL
             /\ RETURN_LABEL' = g.st.RETURN_LABEL
             /\ RETURN_REG' = g.st.RETURN_REG
             /\ REGNO' = g.st.REGNO
    /\ UNCHANGED <<irpc, virt>>
    /\ UNCHANGED <<parsevars, structvars, mainvars, auxvars>>

\* gen_ir, one iteration of its loop: an extern function is skipped after the
\* register counter was reset.
GenIrExtern ==
    /\ irpc = "gen_ir"
    /\ REGNO' = 1
    /\ UNCHANGED <<irpc, funs, nodes, virt, LABEL, RETURN_LABEL, RETURN_REG>>
    /\ UNCHANGED <<parsevars, structvars, mainvars, auxvars>>

\* gen_ir returns; main dumps the IR (-dump-ir1) and goes on to alloc_regs.
GenIrReturn ==
    /\ irpc = "gen_ir"
    /\ irpc' = "alloc_regs"
    /\ virt' = [i \in DOMAIN funs |-> funs[i].irs]
    /\ UNCHANGED <<funs, nodes, LABEL, RETURN_LABEL, RETURN_REG, REGNO>>
    /\ UNCHANGED <<parsevars, structvars, mainvars, auxvars>>

AllocRegs ==
    /\ irpc = "alloc_regs"
    /\ \E a \in {alloc_regs(funs)} :
          IF a.ok
          THEN irpc' = "gen_x86" /\ funs' = a.funs
          ELSE irpc' = "fatal" /\ funs' = funs
    /\ UNCHANGED <<nodes, virt, LABEL, RETURN_LABEL, RETURN_REG, REGNO>>
    /\ UNCHANGED <<parsevars, structvars, mainvars, auxvars>>

(***************************************************************************)
(* Properties of the IR pipeline.                                          *)
(***************************************************************************)
\* An instruction that gives r a value without reading r.
IsDef(ir, r) ==
    \/ ir.op \in {"IrImm", "IrBpRel", "IrLabelAddr", "IrCall", "IrMov"} /\ ir.lhs = r
    \/ ir.op = "IrLoad" /\ ir.lhs = r /\ ir.rhs # r

Defs(code, r) == { i \in DOMAIN code : IsDef(code[i], r) }

Kills(code, r) == { i \in DOMAIN code : code[i].op = "IrKill" /\ code[i].lhs = r }

Least(set) == CHOOSE i \in set : \A j \in set : i <= j

Greatest(set) == CHOOSE i \in set : \A j \in set : j <= i

\* C1 as the specification states it: after IR generation every virtual
\* register of a function has exactly one defining instruction and exactly
\* one Kill, and the definition precedes the Kill.
C1_OneDefOneKill ==
    irpc = "gen_ir" =>
        \A n \in DOMAIN funs :
            \A r \in RegsIn(funs[n].irs) :
                /\ Cardinality(Defs(funs[n].irs, r)) = 1
                /\ Cardinality(Kills(funs[n].irs, r)) = 1
                /\ \A d \in Defs(funs[n].irs, r) :
                      \A k \in Kills(funs[n].irs, r) : d < k

\* C1, amended: after IR generation every virtual register of a function has
\* exactly one Kill, and that Kill comes after every other instruction that
\* references the register (its defining instructions included); the number
\* of defining instructions is not always one.
C1_OneKillAfterAllRefs ==
    irpc = "gen_ir" =>
        \A n \in DOMAIN funs :
            \A r \in RegsIn(funs[n].irs) :
                /\ Cardinality(Kills(funs[n].irs, r)) = 1
                /\ \A k \in Kills(funs[n].irs, r) :
                      \A i \in Refs(funs[n].irs, r) : i <= k

\* A function was lowered in which one register has two defining
\* instructions and another has none, each with its single Kill.
C1_Witness ==
    /\ irpc = "gen_ir"
    /\ \E n \in DOMAIN funs :
          /\ \E r \in RegsIn(funs[n].irs) :
                /\ Cardinality(Defs(funs[n].irs, r)) >= 2
                /\ Cardinality(Kills(funs[n].irs, r)) = 1
    /\ \E n \in DOMAIN funs :
          /\ \E r \in RegsIn(funs[n].irs) :
                /\ Defs(funs[n].irs, r) = {}
                /\ Cardinality(Kills(funs[n].irs, r)) = 1

\* The operand fields of the rewritten instruction iro, at the positions
\* where the instruction irv it came from has its register operands.
OutOps(irv, iro) ==
    (IF UsesLhs(irv) THEN <<iro.lhs>> ELSE <<>>)
    \o (IF UsesRhs(irv) THEN <<iro.rhs>> ELSE <<>>)
    \o (IF irv.op = "IrCall" THEN iro.args ELSE <<>>)

\* C2: after register allocation every register operand indexes the
\* seven-entry register tables of the emitter, and no Kill is left.
C2_PhysRegsInRange ==
    irpc = "gen_x86" =>
        \A n \in DOMAIN funs :
            \A i \in DOMAIN funs[n].irs :
                /\ funs[n].irs[i].op # "IrKill"
                /\ virt[n][i].op = "IrKill" => funs[n].irs[i].op = "IrNop"
                /\ \A k \in DOMAIN OutOps(virt[n][i], funs[n].irs[i]) :
                      OutOps(virt[n][i], funs[n].irs[i])[k] + 1 \in DOMAIN REG64

\* Allocation succeeded for a function that needs all seven registers and
\* whose Kill instructions became Nop.
C2_Witness ==
    /\ irpc = "gen_x86"
    /\ \E n \in DOMAIN funs :
          /\ \E i \in DOMAIN funs[n].irs :
                virt[n][i].op = "IrKill" /\ funs[n].irs[i].op = "IrNop"
          /\ \E i \in DOMAIN funs[n].irs :
                /\ funs[n].irs[i].op = "IrImm"
                /\ funs[n].irs[i].lhs = Len(REG64) - 1

\* The slots the references of r were rewritten to.
SlotsOf(code, out, r) ==
    UNION { { OutOps(code[i], out[i])[k] :
                k \in { j \in DOMAIN RegsOf(code[i]) : RegsOf(code[i])[j] = r } } :
            i \in Refs(code, r) }

\* One record per virtual register of a function: its inclusive range of
\* references in the code before allocation.
LiveRanges(code) ==
    UNION { { [r |-> r, first |-> Least(R), last |-> Greatest(R)] :
                R \in {Refs(code, r)} } : r \in RegsIn(code) }

\* The same with the slots the register was given.
Ranges(code, out) ==
    { [r |-> t.r, first |-> t.first, last |-> t.last,
       slots |-> SlotsOf(code, out, t.r)] : t \in LiveRanges(code) }

Overlap(t1, t2) == t1.first <= t2.last /\ t2.first <= t1.last

OneSlotNoSharing(rs) ==
    /\ \A t \in rs : Cardinality(t.slots) = 1
    /\ \A t1, t2 \in rs :
          t1.r # t2.r /\ Overlap(t1, t2) => t1.slots \cap t2.slots = {}

\* C3: a virtual register holds exactly one slot from its first to its last
\* reference, and two registers whose inclusive ranges overlap never hold
\* the same slot.
C3_OneSlotNoSharing ==
    irpc = "gen_x86" =>
        \A n \in DOMAIN funs :
            \A rs \in {Ranges(virt[n], funs[n].irs)} : OneSlotNoSharing(rs)

SlotReused(rs) ==
    \E t1, t2, t3 \in rs :
        /\ t1.r # t2.r /\ Overlap(t1, t2) /\ t1.slots # t2.slots
        /\ t3.r # t1.r /\ ~Overlap(t1, t3) /\ t1.slots = t3.slots

\* Allocation succeeded for a function in which two registers with
\* overlapping ranges got different slots and a later register reuses the
\* slot of one whose range ended.
C3_Witness ==
    /\ irpc = "gen_x86"
    /\ \E n \in DOMAIN funs :
          \E rs \in {Ranges(virt[n], funs[n].irs)} : SlotReused(rs)

\* The number of registers whose inclusive range contains position p.
LiveAt(rs, p) == Cardinality({ t \in rs : t.first <= p /\ p <= t.last })

\* At most m registers are live at every position / m are live at some.
LiveWithin(code, rs, m) == \A p \in DOMAIN code : LiveAt(rs, p) <= m

LiveReaches(code, rs, m) == \E p \in DOMAIN code : LiveAt(rs, p) = m

\* C4: allocation is fatal when more than seven registers are live at some
\* position of some function, and succeeds when at most seven are live
\* everywhere.
C4_FatalIffMoreThanSeven ==
    /\ irpc = "fatal" =>
          \E n \in DOMAIN virt :
              \E rs \in {LiveRanges(virt[n])} :
                  ~LiveWithin(virt[n], rs, Len(REG64))
    /\ irpc = "gen_x86" =>
          \A n \in DOMAIN virt :
              \A rs \in {LiveRanges(virt[n])} :
                  LiveWithin(virt[n], rs, Len(REG64))

\* Allocation was fatal for a program with a function that has eight live
\* registers at one position, next to a function that has exactly seven
\* and no more.
C4_Witness ==
    /\ irpc = "fatal"
    /\ \E n \in DOMAIN virt :
          \E rs \in {LiveRanges(virt[n])} :
              LiveReaches(virt[n], rs, Len(REG64) + 1)
    /\ \E n \in DOMAIN virt :
          \E rs \in {LiveRanges(virt[n])} :
              /\ LiveWithin(virt[n], rs, Len(REG64))
              /\ LiveReaches(virt[n], rs, Len(REG64))

\* The opcodes gen_expr emits for a binary expression `a op b` on the two
\* result registers of its operands.
BinOps ==
    {"IrAdd", "IrSub", "IrMul", "IrDiv", "IrLt", "IrLe", "IrShl", "IrShr",
     "IrMod", "IrAnd", "IrOr", "IrXor", "IrEqEq", "IrNe"}

IsBinOp(ir) == ir.op \in BinOps /\ ~ir.imm

\* At position i of code stands the opcode of a binary expression: the
\* code of the left operand, which ends before the right operand's result
\* register is first mentioned, then the code of the right operand, which
\* does not mention the left result, then the opcode, then Kill of the
\* right result.
BinaryShape(code, i) ==
    /\ code[i].lhs # code[i].rhs
    /\ i < Len(code)
    /\ code[i + 1].op = "IrKill" /\ code[i + 1].lhs = code[i].rhs
    /\ \A ra \in {Refs(code, code[i].lhs)} : \A rb \in {Refs(code, code[i].rhs)} :
          /\ Least(ra) < Least(rb)
          /\ \A j \in Least(rb)..(i - 1) : j \notin ra
          /\ \A j \in rb : j <= i + 1

\* What `return 1+2;` lowers to, with ra and rb for the two registers.
Return1Plus2Code(ra, rb) ==
    <<Ir("IrImm", ra, 1), Ir("IrImm", rb, 2), Ir("IrAdd", ra, rb),
      Ir("IrKill", rb, 0), Ir("IrRet", ra, 0), Ir("IrKill", ra, 0)>>

\* C12: the opcode of a binary expression follows the code of its left
\* operand and then the code of its right operand, works on their two
\* result registers and is followed by the Kill of the right one; the
\* function body `return 1+2;` lowers to Imm ra 1, Imm rb 2, Add ra rb,
\* Kill rb, Ret ra, Kill ra for two different registers ra and rb.
C12_BinaryLowering ==
    \A n \in DOMAIN virt :
        /\ \A i \in DOMAIN virt[n] :
              IsBinOp(virt[n][i]) => BinaryShape(virt[n], i)
        /\ nodes[n].body = Return1Plus2 =>
              \E ra, rb \in RegsIn(virt[n]) :
                  ra # rb /\ virt[n] = Return1Plus2Code(ra, rb)

\* gen_ir returned for a program with the function `return 1+2;` and a
\* function whose binary expression has a call as its right operand.
C12_Witness ==
    /\ irpc = "alloc_regs"
    /\ \E n \in DOMAIN nodes : nodes[n].body = Return1Plus2
    /\ \E n \in DOMAIN nodes :
          \E i \in DOMAIN virt[n] :
              /\ IsBinOp(virt[n][i])
              /\ \E j \in 1..(i - 1) :
                    virt[n][j].op = "IrCall" /\ virt[n][j].lhs = virt[n][i].rhs

(***************************************************************************)
(* parse.rs: roundup.  The operators ! and & of i32 on two's complement.   *)
(***************************************************************************)
BitNot(x) == -x - 1

RECURSIVE BitAnd(_, _)
BitAnd(a, b) ==
    IF a = 0 \/ b = 0 THEN 0
    ELSE IF a = -1 THEN b
    ELSE IF b = -1 THEN a
    ELSE (a % 2) * (b % 2) + 2 * BitAnd(a \div 2, b \div 2)

\* (x + align - 1) & !(align - 1)
roundup(x, align) == BitAnd(x + align - 1, BitNot(align - 1))

(***************************************************************************)
(* parse.rs: new_struct.                                                   *)
(***************************************************************************)
StructType(tag, members, size, align) ==
    [ty |-> "STRUCT", tag |-> tag, members |-> members, size |-> size,
     align |-> align, offset |-> 0, len |-> 0]

\* `while let Some((name, mut ctype)) = mb_vec.pop()` on the reversed vector:
\* the members are taken in declaration order.
RECURSIVE new_struct_loop(_, _, _, _)
new_struct_loop(mbs, o, al, mb_map) ==
    IF mbs = <<>> THEN [off |-> o, ty_align |-> al, mb_map |-> mb_map]
    ELSE LET place(at, ctype) ==
                 new_struct_loop(Tail(mbs), at + ctype.size,
                                 IF al >= ctype.align THEN al ELSE ctype.align,
                                 Append(mb_map,
                                        [name |-> Head(mbs)[1],
                                         ctype |-> [ctype EXCEPT !.offset = at]]))
         IN place(roundup(o, Head(mbs)[2].align), Head(mbs)[2])

new_struct(tag, mbs) ==
    LET finish(l) ==
            StructType(tag, l.mb_map, roundup(l.off, l.ty_align), l.ty_align)
    IN finish(new_struct_loop(mbs, 0, 0, <<>>))

(***************************************************************************)
(* SpecStruct: new_struct on every member list up to MaxMembers.           *)
(***************************************************************************)
MaxMembers == 3

\* The member types a struct declaration can name: int, char, int *,
\* int[2], and void (decl_specifiers accepts it for a member).
MemberTypes == {INT_TY, CHAR_TY, ptr_to(INT_TY), ary_of(INT_TY, 2), VOID_TY}

MemberNames == <<"a", "b", "c", "d", "e">>

RECURSIVE MemberLists(_)
MemberLists(n) ==
    IF n = 0 THEN {<<>>}
    ELSE { Append(l, <<MemberNames[n], t>>) : l \in MemberLists(n - 1),
                                              t \in MemberTypes }

StructInit ==
    /\ spc = "decl_specifiers"
    /\ mb_vec \in UNION { MemberLists(n) : n \in 1..MaxMembers }
    /\ sty = StructType("", <<>>, 0, 0)

StructIdle ==
    /\ spc = "idle"
    /\ mb_vec = <<>>
    /\ sty = StructType("", <<>>, 0, 0)

\* decl_specifiers calls new_struct with the members it collected.
NewStruct ==
    /\ spc = "decl_specifiers"
    /\ sty' = new_struct("S", mb_vec)
    /\ spc' = "done"
    /\ UNCHANGED mb_vec
    /\ UNCHANGED <<irvars, parsevars, mainvars, auxvars>>

(***************************************************************************)
(* parse.rs: Var, Env, decl_specifiers, declaration, param_declaration.    *)
(* A frame keeps each of its maps as a set of key/value pairs; ENV is the  *)
(* chain of frames from the current one to the global one.                 *)
(***************************************************************************)
Var(ctype, offset, is_local, labelname) ==
    [is_local |-> is_local, offset |-> offset, labelname |-> labelname,
     ctype |-> ctype]

NULL_VAR == Var(NULL_TY, 0, TRUE, "")

\* Env::new_env
new_env == [tags |-> {}, typedefs |-> {}, enums |-> {}, vars |-> {}]

\* LinkedHashMap::insert
Insert(map, key, val) ==
    { e \in map : e.key # key } \cup { [key |-> key, val |-> val] }

env_inc(env) == <<new_env>> \o env

\* A mutation of env_dec: the frame is not popped.
env_dec_kept(env) == env

env_dec(env) == Tail(env)

\* env_find!: the current frame first, then, if that gave the null value,
\* the enclosing frames outwards.
RECURSIVE find_next(_, _, _, _)
find_next(env, m, name, null) ==
    IF env = <<>> THEN null
    ELSE IF \E e \in Head(env)[m] : e.key = name
         THEN (CHOOSE e \in Head(env)[m] : e.key = name).val
         ELSE find_next(Tail(env), m, name, null)

env_find(env, m, name, null) ==
    LET target == IF \E e \in Head(env)[m] : e.key = name
                  THEN (CHOOSE e \in Head(env)[m] : e.key = name).val
                  ELSE null
    IN IF target = null THEN find_next(Tail(env), m, name, null) ELSE target

\* Var::calc_offset
calc_offset(var, stacksize) ==
    roundup(stacksize, var.ctype.align) + var.ctype.size

\* Env::add_var on the parser state ps = [ENV, STACKSIZE, locals].
add_var(ps, ident, var) ==
    IF var.is_local
    THEN LET placed(offset) ==
                 [ENV |-> [ps.ENV EXCEPT ![1].vars =
                               Insert(@, ident, [var EXCEPT !.offset = offset])],
                  STACKSIZE |-> offset,
                  locals |-> Append(ps.locals,
                                    [name |-> ident, ctype |-> var.ctype,
                                     before |-> ps.STACKSIZE,
                                     offset |-> offset])]
         IN placed(calc_offset(var, ps.STACKSIZE))
    ELSE [ps EXCEPT !.ENV[1].vars = Insert(@, ident, var)]

add_typedef(env, ident, ctype) ==
    [env EXCEPT ![1].typedefs = Insert(@, ident, ctype)]

add_tags(env, tag, ctype) == [env EXCEPT ![1].tags = Insert(@, tag, ctype)]

\* Env::add_enum for `enum { A, B };`
add_enum(env) ==
    [env EXCEPT ![1].enums = Insert(Insert(@, "A", 0), "B", 1)]

\* decl_specifiers on the specifier tokens spec; a struct definition with a
\* tag registers the tag.
StructDef == "struct S { int a; char b; }"

decl_specifiers(spec, env) ==
    CASE spec = "int" -> [ty |-> INT_TY, ENV |-> env]
      [] spec = "char" -> [ty |-> CHAR_TY, ENV |-> env]
      [] spec = "void" -> [ty |-> VOID_TY, ENV |-> env]
      [] spec = "T" ->
            [ty |-> env_find(env, "typedefs", "T", NULL_TY), ENV |-> env]
      [] spec = "struct S" ->
            [ty |-> env_find(env, "tags", "S", NULL_TY), ENV |-> env]
      [] spec = StructDef ->
            LET def(st) == [ty |-> st, ENV |-> add_tags(env, "S", st)]
            IN def(new_struct("S", <<<<"a", INT_TY>>, <<"b", CHAR_TY>>>>))

\* declarator: `*` repeated stars times, then the identifier.
declarator(ty, stars) == IF stars = 0 THEN ty ELSE ptr_to(ty)

\* declaration(tokenset, true) for `spec [*] ident;`
declaration(ps, spec, stars, ident) ==
    LET declare(d) ==
            add_var([ps EXCEPT !.ENV = d.ENV], ident,
                    [NULL_VAR EXCEPT !.ctype = declarator(d.ty, stars)])
    IN declare(decl_specifiers(spec, ps.ENV))

\* param_declaration for `spec [*] ident`
param_declaration(ps, pd) ==
    LET declare(d) ==
            add_var([ps EXCEPT !.ENV = d.ENV], pd.name,
                    [NULL_VAR EXCEPT !.ctype = declarator(d.ty, pd.stars),
                                     !.labelname = pd.name])
    IN declare(decl_specifiers(pd.spec, ps.ENV))

\* toplevel's loop over the parameters.
RECURSIVE param_declarations(_, _)
param_declarations(ps, pds) ==
    IF pds = <<>> THEN ps
    ELSE param_declarations(param_declaration(ps, Head(pds)), Tail(pds))

\* gen_x86.rs gen: the immediate of `sub rsp, ...` in the prologue.
prologue_sub(fun) == roundup(fun.stacksize, 16)

(***************************************************************************)
(* SpecParse: parse on bounded programs.  A step is one top-level item or, *)
(* inside a function body, one statement, `{` or `}`.                      *)
(***************************************************************************)
MaxItems == 2       \* top-level items per program
MaxDepth == 2       \* constructs open inside a function body
MaxLocals == 2      \* parameters and locals per function
MaxTypedefs == 2    \* typedefs in scope at a time

PD(spec, stars, name) == [spec |-> spec, stars |-> stars, name |-> name]

\* (), (int p, void q), (char p, int *q)
ParamLists ==
    { <<>>,
      <<PD("int", 0, "p"), PD("void", 0, "q")>>,
      <<PD("char", 0, "p"), PD("int", 1, "q")>> }

\* The specifiers that make stmt take a statement for a declaration.
StmtSpecs == {"int", "T"}

LocalNames == {"x"}

NoFunc == [defined |-> FALSE, name |-> "", stacksize |-> 0, locals |-> <<>>]

\* parse: `*ENV.lock().unwrap() = Env::new_env(None)` before the first item.
ParseInit ==
    /\ ENV = <<new_env>>
    /\ STACKSIZE = 0
    /\ ctl = <<>>
    /\ locals = <<>>
    /\ fnode = NoFunc
    /\ items = 0
    /\ lastOp = "parse"

ParseIdle ==
    /\ ENV = <<new_env>>
    /\ STACKSIZE = 0
    /\ ctl = <<>>
    /\ locals = <<>>
    /\ fnode = NoFunc
    /\ items = 0
    /\ lastOp = "idle"

\* A statement that is the body of a for statement ends that statement:
\* stmt's For arm calls env_dec after its body, and so do the for
\* statements this one is the body of.
RECURSIVE CloseFors(_, _)
CloseFors(env, c) ==
    IF c # <<>> /\ Head(c) = "for" THEN CloseFors(env_dec(env), Tail(c))
    ELSE [ENV |-> env, ctl |-> c]

\* toplevel: `enum { A, B };`
TopEnum ==
    /\ ctl = <<>> /\ items < MaxItems
    /\ ENV' = add_enum(ENV)
    /\ items' = items + 1
    /\ lastOp' = "other"
    /\ fnode' = NoFunc
    /\ UNCHANGED <<STACKSIZE, ctl, locals>>
    /\ UNCHANGED <<irvars, structvars, mainvars, auxvars>>

\* toplevel: `typedef int T;` or `typedef void T;`
TopTypedef ==
    /\ ctl = <<>> /\ items < MaxItems
    /\ \E spec \in {"int", "void"} :
          \E d \in {decl_specifiers(spec, ENV)} :
              ENV' = add_typedef(d.ENV, "T", d.ty)
    /\ items' = items + 1
    /\ lastOp' = "other"
    /\ fnode' = NoFunc
    /\ UNCHANGED <<STACKSIZE, ctl, locals>>
    /\ UNCHANGED <<irvars, structvars, mainvars, auxvars>>

\* toplevel: a global variable, `struct S { int a; char b; } g;`
TopGlobal ==
    /\ ctl = <<>> /\ items < MaxItems
    /\ \E d \in {decl_specifiers(StructDef, ENV)} :
              \E ps \in {add_var([ENV |-> d.ENV, STACKSIZE |-> STACKSIZE,
                                  locals |-> locals],
                                 "g", Var(d.ty, 0, FALSE, "g"))} :
                  /\ ENV' = ps.ENV
                  /\ STACKSIZE' = ps.STACKSIZE
                  /\ locals' = ps.locals
    /\ items' = items + 1
    /\ lastOp' = "other"
    /\ fnode' = NoFunc
    /\ UNCHANGED ctl
    /\ UNCHANGED <<irvars, structvars, mainvars, auxvars>>

\* toplevel up to the `)` of a function: the stack size is reset, the
\* function's name is bound, a frame is pushed and the parameters declared.
function_head(env, pds) ==
    LET named == add_var([ENV |-> env, STACKSIZE |-> 0, locals |-> <<>>],
                         "f", Var(INT_TY, 0, FALSE, "f"))
    IN param_declarations([named EXCEPT !.ENV = env_inc(@)], pds)

\* toplevel: a prototype, `int f(int p);`: toplevel returns after the `;`.
TopProto ==
    /\ ctl = <<>> /\ items < MaxItems
    /\ \E ps \in {function_head(ENV, <<PD("int", 0, "p")>>)} :
          /\ ENV' = ps.ENV
          /\ STACKSIZE' = ps.STACKSIZE
          /\ locals' = ps.locals
    /\ items' = items + 1
    /\ lastOp' = "other"
    /\ fnode' = NoFunc
    /\ UNCHANGED ctl
    /\ UNCHANGED <<irvars, structvars, mainvars, auxvars>>

\* toplevel: a function definition up to the `{` of its body
\* (compound_stmt(tokenset, false) pushes no frame of its own).
TopFuncBegin ==
    /\ ctl = <<>> /\ items < MaxItems
    /\ \E pds \in ParamLists :
          \E ps \in {function_head(ENV, pds)} :
              /\ ENV' = ps.ENV
              /\ STACKSIZE' = ps.STACKSIZE
              /\ locals' = ps.locals
    /\ ctl' = <<"body">>
    /\ items' = items + 1
    /\ lastOp' = "other"
    /\ UNCHANGED fnode
    /\ UNCHANGED <<irvars, structvars, mainvars, auxvars>>

\* stmt: a local declaration `spec name;`
StmtDecl ==
    /\ ctl # <<>> /\ Len(locals) < MaxLocals
    /\ \E spec \in StmtSpecs, name \in LocalNames :
          \E ps \in {declaration([ENV |-> ENV, STACKSIZE |-> STACKSIZE,
                                  locals |-> locals], spec, 0, name)} :
              \E c \in {CloseFors(ps.ENV, ctl)} :
                  /\ ENV' = c.ENV
                  /\ ctl' = c.ctl
                  /\ STACKSIZE' = ps.STACKSIZE
                  /\ locals' = ps.locals
    /\ lastOp' = "other"
    /\ UNCHANGED <<fnode, items>>
    /\ UNCHANGED <<irvars, structvars, mainvars, auxvars>>

\* The typedefs the frames of env hold.
RECURSIVE typedef_count(_)
typedef_count(env) ==
    IF env = <<>> THEN 0
    ELSE Cardinality(Head(env).typedefs) + typedef_count(Tail(env))

\* stmt: a local typedef, `typedef struct S T;`
StmtTypedef ==
    /\ ctl # <<>> /\ typedef_count(ENV) < MaxTypedefs
    /\ \E d \in {decl_specifiers("struct S", ENV)} :
          \E c \in {CloseFors(add_typedef(d.ENV, "T", d.ty), ctl)} :
              /\ ENV' = c.ENV
              /\ ctl' = c.ctl
    /\ lastOp' = "other"
    /\ UNCHANGED <<STACKSIZE, locals, fnode, items>>
    /\ UNCHANGED <<irvars, structvars, mainvars, auxvars>>

\* stmt: `;`, which matters where it is the body of a for statement.
StmtNull ==
    /\ ctl # <<>> /\ Head(ctl) = "for"
    /\ \E c \in {CloseFors(ENV, ctl)} : ENV' = c.ENV /\ ctl' = c.ctl
    /\ lastOp' = "other"
    /\ UNCHANGED <<STACKSIZE, locals, fnode, items>>
    /\ UNCHANGED <<irvars, structvars, mainvars, auxvars>>

\* stmt: `{`, compound_stmt(tokenset, true) up to its first statement.
BlockOpen ==
    /\ ctl # <<>> /\ Len(ctl) <= MaxDepth
    /\ ENV' = env_inc(ENV)
    /\ ctl' = <<"block">> \o ctl
    /\ lastOp' = "other"
    /\ UNCHANGED <<STACKSIZE, locals, fnode, items>>
    /\ UNCHANGED <<irvars, structvars, mainvars, auxvars>>

\* stmt: `{}`, compound_stmt(tokenset, true) with no statement inside:
\* env_inc, then env_dec at once.
EmptyBlock ==
    /\ ctl # <<>>
    /\ \E c \in {CloseFors(env_dec(env_inc(ENV)), ctl)} :
          ENV' = c.ENV /\ ctl' = c.ctl
    /\ lastOp' = "EmptyBlock"
    /\ UNCHANGED <<STACKSIZE, locals, fnode, items>>
    /\ UNCHANGED <<irvars, structvars, mainvars, auxvars>>

\* stmt: `for (` with or without `int name;` as its init clause, up to its
\* body.
ForOpen ==
    /\ ctl # <<>> /\ Len(ctl) <= MaxDepth
    /\ \/ /\ ENV' = env_inc(ENV)
          /\ UNCHANGED <<STACKSIZE, locals>>
       \/ /\ Len(locals) < MaxLocals
          /\ \E name \in LocalNames :
                \E ps \in {declaration([ENV |-> env_inc(ENV),
                                        STACKSIZE |-> STACKSIZE,
                                        locals |-> locals], "int", 0, name)} :
                    /\ ENV' = ps.ENV
                    /\ STACKSIZE' = ps.STACKSIZE
                    /\ locals' = ps.locals
    /\ ctl' = <<"for">> \o ctl
    /\ lastOp' = "other"
    /\ UNCHANGED <<fnode, items>>
    /\ UNCHANGED <<irvars, structvars, mainvars, auxvars>>

\* compound_stmt: the `}` of a block inside the body.
BlockClose ==
    /\ ctl # <<>> /\ Head(ctl) = "block"
    /\ \E c \in {CloseFors(env_dec(ENV), Tail(ctl))} :
          ENV' = c.ENV /\ ctl' = c.ctl
    /\ lastOp' = "other"
    /\ UNCHANGED <<STACKSIZE, locals, fnode, items>>
    /\ UNCHANGED <<irvars, structvars, mainvars, auxvars>>

\* compound_stmt: the `}` of the function body; toplevel returns the Func
\* node with the stack size reached.
FuncEnd ==
    /\ ctl = <<"body">>
    /\ ENV' = env_dec(ENV)
    /\ ctl' = <<>>
    /\ fnode' = [defined |-> TRUE, name |-> "f", stacksize |-> STACKSIZE,
                 locals |-> locals]
    /\ lastOp' = "other"
    /\ UNCHANGED <<STACKSIZE, locals, items>>
    /\ UNCHANGED <<irvars, structvars, mainvars, auxvars>>

(***************************************************************************)
(* parse.rs: switch_loop_inc, switch_loop_dec, case_emit, const_expr, on   *)
(* the statements of one function body.  st.status is -1 while the parser  *)
(* runs and the exit status once the process has ended.                    *)
(***************************************************************************)
RetS == [k |-> "ret"]

\* `case 1: ;` (isnum) or `case x: ;`
CaseS(isnum) == [k |-> "case", isnum |-> isnum]

\* `case val: body`
CaseOf(val, body) == [k |-> "caseof", val |-> val, body |-> body]

\* `switch (x) { ... }`
SwitchS(stmts) == [k |-> "switch", stmts |-> stmts]

\* `int 3;`: direct_decl panics with "bad direct declarator".
BadS == [k |-> "bad"]

\* std::process::exit(code)
exit(st, code) == [st EXCEPT !.status = code]

\* panic!: the process ends with the status of a Rust panic.
panic(st) == [st EXCEPT !.status = 101]

switch_loop_inc(st) == [st EXCEPT !.SWITCHES = Append(@, <<>>)]

switch_loop_dec(st) ==
    IF st.SWITCHES # <<>>
    THEN [st EXCEPT !.SWITCHES = SubSeq(@, 1, Len(@) - 1)]
    ELSE exit(st, 0)

case_emit(st, val) ==
    IF st.SWITCHES = <<>> THEN exit(st, 0)
    ELSE [st EXCEPT !.SWITCHES[Len(st.SWITCHES)] = Append(@, val)]

\* Node::new_switch(cond, body, case_conds): the list switch_loop_dec pops
\* is attached to the switch node; st.cases holds the lists attached so far.
new_switch(st) ==
    IF st.SWITCHES = <<>> THEN st
    ELSE [st EXCEPT !.cases = Append(@, st.SWITCHES[Len(st.SWITCHES)])]

\* const_expr: the expression must be a Num node.
const_expr(st, isnum) == IF isnum THEN st ELSE exit(st, 0)

RECURSIVE stmt(_, _), stmts(_, _)
stmt(node, st) ==
    CASE node.k = "ret" -> st
      [] node.k = "bad" -> panic(st)
      [] node.k = "case" ->
            LET emit(s1) == IF s1.status # -1 THEN s1 ELSE case_emit(s1, 1)
            IN emit(const_expr(st, node.isnum))
      [] node.k = "caseof" ->
            LET emit(s1) ==
                    IF s1.status # -1 THEN s1 ELSE case_emit(s1, node.val)
            IN emit(stmt(node.body, const_expr(st, TRUE)))
      [] node.k = "switch" ->
            LET leave(s1) ==
                    IF s1.status # -1 THEN s1
                    ELSE switch_loop_dec(new_switch(s1))
            IN leave(stmts(node.stmts, switch_loop_inc(st)))

stmts(body, st) ==
    IF body = <<>> \/ st.status # -1 THEN st
    ELSE stmts(Tail(body), stmt(Head(body), st))

\* parse on a file holding `int main() { <body> }`
parse(body) ==
    stmts(body, [SWITCHES |-> <<>>, status |-> -1, cases |-> <<>>])

\* The statements made of `return;`, case labels and switches, a switch
\* nested in at most n others or a label under at most n others.
RECURSIVE SwitchStmts(_)
SwitchStmts(n) ==
    IF n = 0 THEN {RetS} \cup { CaseOf(v, RetS) : v \in 1 .. MaxCase }
    ELSE LET inner == SwitchStmts(n - 1)
         IN inner \cup { CaseOf(v, b) : v \in 1 .. MaxCase, b \in inner }
                  \cup { SwitchS(<<a>>) : a \in inner }
                  \cup { SwitchS(<<a, b>>) :
                           a \in inner, b \in SwitchStmts(0) }

SwitchInit ==
    /\ swpc = "parse"
    /\ swbody \in { <<a>> : a \in SwitchStmts(MaxNest) }
    /\ swst = [SWITCHES |-> <<>>, status |-> -1, cases |-> <<>>]

SwitchIdle ==
    /\ swpc = "idle"
    /\ swbody = <<>>
    /\ swst = [SWITCHES |-> <<>>, status |-> -1, cases |-> <<>>]

\* parse on a function body.
SwitchParse ==
    /\ swpc = "parse"
    /\ swst' = parse(swbody)
    /\ swpc' = "done"
    /\ UNCHANGED swbody
    /\ UNCHANGED <<irvars, parsevars, structvars, mainvars, stmtvars, emitvars,
                   semavars, execvars, cpuvars>>

(***************************************************************************)
(* SpecMain: main.rs main.                                                 *)
(***************************************************************************)
MaxArgs == 3        \* arguments after the program name

ArgWords == {"-dump-ir1", "-dump-ir2", "-foo", "a.c"}

RECURSIVE ArgVecs(_)
ArgVecs(n) ==
    IF n = 0 THEN {<<"mir9cc">>}
    ELSE { Append(v, w) : v \in ArgVecs(n - 1), w \in ArgWords }

Programs ==
    { <<RetS>>,
      <<SwitchS(<<CaseS(TRUE)>>), RetS>>,
      <<SwitchS(<<SwitchS(<<CaseS(TRUE)>>), CaseS(TRUE)>>)>>,
      <<CaseS(TRUE)>>,
      <<SwitchS(<<CaseS(FALSE)>>)>>,
      <<BadS>> }

Usage == "Usage: mir9cc [-dump-ir1] [-dump-ir2] <file>"

MainInit ==
    /\ mpc = "args"
    /\ argv \in UNION { ArgVecs(n) : n \in 0..MaxArgs }
    /\ program \in Programs
    /\ dump_ir1 = FALSE
    /\ dump_ir2 = FALSE
    /\ stdout = <<>>
    /\ ran = <<>>
    /\ exit_status = -1

MainIdle ==
    /\ mpc = "idle"
    /\ argv = <<>>
    /\ program = <<>>
    /\ dump_ir1 = FALSE
    /\ dump_ir2 = FALSE
    /\ stdout = <<>>
    /\ ran = <<>>
    /\ exit_status = -1

\* main.rs 39-50: args[i] of the code is argv[i + 1] here.
MainArgs ==
    /\ mpc = "args"
    /\ IF Len(argv) = 4 /\ argv[2] = "-dump-ir1" /\ argv[3] = "-dump-ir2"
       THEN /\ dump_ir1' = TRUE /\ dump_ir2' = TRUE
            /\ mpc' = "tokenize"
            /\ UNCHANGED <<stdout, exit_status>>
       ELSE IF Len(argv) = 3 /\ argv[2] = "-dump-ir1"
       THEN /\ dump_ir1' = TRUE /\ dump_ir2' = FALSE
            /\ mpc' = "tokenize"
            /\ UNCHANGED <<stdout, exit_status>>
       ELSE IF Len(argv) = 3
       THEN /\ dump_ir1' = FALSE /\ dump_ir2' = TRUE
            /\ mpc' = "tokenize"
            /\ UNCHANGED <<stdout, exit_status>>
       ELSE IF Len(argv) = 2
       THEN /\ mpc' = "tokenize"
            /\ UNCHANGED <<dump_ir1, dump_ir2, stdout, exit_status>>
       ELSE /\ stdout' = Append(stdout, Usage)
            /\ exit_status' = 1
            /\ mpc' = "exited"
            /\ UNCHANGED <<dump_ir1, dump_ir2>>
    /\ UNCHANGED <<argv, program, ran>>
    /\ UNCHANGED <<irvars, parsevars, structvars, auxvars>>

\* add_program(args.pop()) and tokenize
MainTokenize ==
    /\ mpc = "tokenize"
    /\ ran' = Append(ran, "tokenize")
    /\ mpc' = "parse"
    /\ UNCHANGED <<argv, program, dump_ir1, dump_ir2, stdout, exit_status>>
    /\ UNCHANGED <<irvars, parsevars, structvars, auxvars>>

\* parse(&mut tokenset, &mut program): returns, or the process ends in it.
MainParse ==
    /\ mpc = "parse"
    /\ ran' = Append(ran, "parse")
    /\ \E st \in {parse(program)} :
          IF st.status = -1
          THEN mpc' = "sema" /\ UNCHANGED exit_status
          ELSE mpc' = "exited" /\ exit_status' = st.status
    /\ UNCHANGED <<argv, program, dump_ir1, dump_ir2, stdout>>
    /\ UNCHANGED <<irvars, parsevars, structvars, auxvars>>

MainSema ==
    /\ mpc = "sema"
    /\ ran' = Append(ran, "sema")
    /\ mpc' = "gen_ir"
    /\ UNCHANGED <<argv, program, dump_ir1, dump_ir2, stdout, exit_status>>
    /\ UNCHANGED <<irvars, parsevars, structvars, auxvars>>

\* gen_ir, then dump_ir under -dump-ir1
MainGenIr ==
    /\ mpc = "gen_ir"
    /\ ran' = Append(ran, "gen_ir")
    /\ stdout' = IF dump_ir1 THEN Append(stdout, "-dump-ir1") ELSE stdout
    /\ mpc' = "alloc_regs"
    /\ UNCHANGED <<argv, program, dump_ir1, dump_ir2, exit_status>>
    /\ UNCHANGED <<irvars, parsevars, structvars, auxvars>>

\* alloc_regs, then dump_ir under -dump-ir2
MainAllocRegs ==
    /\ mpc = "alloc_regs"
    /\ ran' = Append(ran, "alloc_regs")
    /\ stdout' = IF dump_ir2 THEN Append(stdout, "-dump-ir2") ELSE stdout
    /\ mpc' = "gen_x86"
    /\ UNCHANGED <<argv, program, dump_ir1, dump_ir2, exit_status>>
    /\ UNCHANGED <<irvars, parsevars, structvars, auxvars>>

\* gen_x86, after which main returns.
MainGenX86 ==
    /\ mpc = "gen_x86"
    /\ ran' = Append(ran, "gen_x86")
    /\ mpc' = "exited"
    /\ exit_status' = 0
    /\ UNCHANGED <<argv, program, dump_ir1, dump_ir2, stdout>>
    /\ UNCHANGED <<irvars, parsevars, structvars, auxvars>>

(***************************************************************************)
(* SpecStmt: the parser at the start of a statement or of the init clause  *)
(* of a for statement, looking at the next two tokens under a scope chain. *)
(***************************************************************************)
Tok(ty, name) == [ty |-> ty, name |-> name]

\* token.rs TokenSet::is_typename
is_typename(tok) ==
    tok.ty \in {"TokenInt", "TokenChar", "TokenVoid", "TokenStruct", "TokenTypeof"}

\* stmt, the arms that start no control statement: which routine gets the
\* input whose next two tokens are ts.
stmt_arm(ts) ==
    CASE ts[1].ty = "TokenRightCurlyBrace" -> "compound_stmt"
      [] ts[1].ty \in {"TokenInt", "TokenChar", "TokenStruct", "TokenTypeof",
                       "TokenBool"} -> "declaration"
      [] ts[1].ty = "TokenSemi" -> "new_null"
      [] ts[1].ty = "TokenEnum" -> "add_enum"
      [] OTHER ->
            IF ts[1].ty = "TokenIdent" /\ ts[2].ty = "TokenIdent"
            THEN "declaration"
            ELSE "expr_stmt"

\* stmt, TokenFor arm: the init clause.
for_init(ts) ==
    IF is_typename(ts[1]) THEN "declaration"
    ELSE IF ts[1].ty = "TokenSemi" THEN "new_null"
    ELSE "expr_stmt"

\* The tokens a statement of the model starts with: the type keywords, an
\* identifier (T is declared by a typedef in some scope chains, x never is),
\* a number, `;` and `{`.
FirstToks ==
    { Tok(ty, "") : ty \in {"TokenInt", "TokenChar", "TokenVoid", "TokenBool",
                            "TokenStruct", "TokenTypeof", "TokenEnum",
                            "TokenNum", "TokenSemi", "TokenRightCurlyBrace"} }
    \cup { Tok("TokenIdent", "T"), Tok("TokenIdent", "x") }

SecondToks ==
    { Tok("TokenIdent", "y"), Tok("TokenStar", ""), Tok("TokenSemi", ""),
      Tok("TokenAssign", ""), Tok("TokenRightBrac", "") }

\* Scope chains: T is a typedef name in the innermost frame, in the global
\* frame under an open block, or nowhere.
StmtEnvs ==
    { <<new_env>>,
      add_typedef(<<new_env>>, "T", INT_TY),
      env_inc(add_typedef(<<new_env>>, "T", INT_TY)),
      env_inc(<<new_env>>) }

StmtInit ==
    /\ tpc \in {"stmt", "for_init"}
    /\ toks \in { <<a, b>> : a \in FirstToks, b \in SecondToks }
    /\ taken = "none"
    /\ ENV \in StmtEnvs
    /\ STACKSIZE = 0
    /\ ctl = <<>>
    /\ locals = <<>>
    /\ fnode = NoFunc
    /\ items = 0
    /\ lastOp = "idle"

StmtIdle ==
    /\ tpc = "idle"
    /\ toks = <<>>
    /\ taken = "none"

StmtStart ==
    /\ tpc = "stmt"
    /\ tpc' = "done"
    /\ taken' = stmt_arm(toks)
    /\ UNCHANGED toks
    /\ UNCHANGED <<irvars, parsevars, structvars, mainvars, emitvars, semavars,
                   execvars, cpuvars, switchvars>>

ForInitStart ==
    /\ tpc = "for_init"
    /\ tpc' = "done"
    /\ taken' = for_init(toks)
    /\ UNCHANGED toks
    /\ UNCHANGED <<irvars, parsevars, structvars, mainvars, emitvars, semavars,
                   execvars, cpuvars, switchvars>>

(***************************************************************************)
(* SpecEmit: gen_x86's loop over program.gvars.  Text is kept as the       *)
(* sequence of the character codes printed.                                *)
(***************************************************************************)
MaxStr == 2       \* longest string payload
MaxGvars == 1     \* most global variables of a program

\* gen_x86.rs BACKSLASH_ESCAPED: '\n' -> n, '\r' -> r, '\t' -> t,
\* '\\' -> \, '\'' -> ', '"' -> "
BACKSLASH_ESCAPED == (10 :> 110) @@ (13 :> 114) @@ (9 :> 116)
                     @@ (92 :> 92) @@ (39 :> 39) @@ (34 :> 34)

\* format!("{:o}", n): the octal digits of n, as many as n needs.
RECURSIVE fmt_octal(_)
fmt_octal(n) ==
    IF n < 8 THEN <<48 + n>> ELSE fmt_octal(n \div 8) \o <<48 + (n % 8)>>

\* escape, the body of its loop for the character c; {:o} prints the i8
\* value `c as i8` as the octal digits of its 8-bit pattern.
escape_char(c) ==
    IF c \in DOMAIN BACKSLASH_ESCAPED THEN <<92, BACKSLASH_ESCAPED[c]>>
    ELSE IF c \in 33..126 \/ c = 32 THEN <<c>>
    ELSE <<92>> \o fmt_octal(c % 256)

\* "\000"
Nul == <<92, 48, 48, 48>>

\* escape(strname, len)
RECURSIVE escape_loop(_, _)
escape_loop(p, len) ==
    IF len = 0 THEN <<>>
    ELSE IF p # <<>> THEN escape_char(Head(p)) \o escape_loop(Tail(p), len - 1)
    ELSE Nul \o escape_loop(p, len - 1)

escape(strname, len) == escape_loop(strname, len) \o Nul

\* A global variable: Var with its strname and init options.
Gvar(labelname, ctype, has_strname, strname, has_init, init) ==
    [labelname |-> labelname, ctype |-> ctype, has_strname |-> has_strname,
     strname |-> strname, has_init |-> has_init, init |-> init]

\* string_literal: the anonymous char array of a string literal.
StrGvar(strname) ==
    Gvar(".L.str1", ary_of(CHAR_TY, Len(strname) + 1), TRUE, strname, FALSE, <<>>)

\* The characters of the payloads: newline, backslash, A, space, the
\* characters 1 and 27, and 200.
Chars == {10, 92, 65, 32, 1, 27, 200}

RECURSIVE Strings(_)
Strings(n) ==
    IF n = 0 THEN {<<>>}
    ELSE Strings(n - 1)
         \cup { Append(t, c) : t \in { u \in Strings(n - 1) : Len(u) = n - 1 },
                               c \in Chars }

\* `int x;`, `int y = 3;`, `char c = 1;` at top level, and string literals.
Gvars ==
    { Gvar("x", INT_TY, FALSE, <<>>, FALSE, <<>>),
      Gvar("y", INT_TY, FALSE, <<>>, TRUE, <<".long 3">>),
      Gvar("c", CHAR_TY, FALSE, <<>>, TRUE, <<".byte 1">>) }
    \cup { StrGvar(t) : t \in Strings(MaxStr) }

RECURSIVE GvarLists(_)
GvarLists(n) ==
    IF n = 0 THEN {<<>>}
    ELSE GvarLists(n - 1)
         \cup { Append(l, g) : l \in { u \in GvarLists(n - 1) : Len(u) = n - 1 },
                               g \in Gvars }

EmitInit ==
    /\ epc = "gvars"
    /\ gvars \in GvarLists(MaxGvars)
    /\ gpos = 1
    /\ asm = <<>>

EmitIdle ==
    /\ epc = "idle"
    /\ gvars = <<>>
    /\ gpos = 1
    /\ asm = <<>>

\* One iteration for a variable with a string payload.
EmitData ==
    /\ epc = "gvars"
    /\ gpos <= Len(gvars)
    /\ gvars[gpos].has_strname
    /\ asm' = Append(asm, [section |-> ".data",
                           label |-> gvars[gpos].labelname,
                           directive |-> ".ascii",
                           text |-> escape(gvars[gpos].strname,
                                           gvars[gpos].ctype.size),
                           size |-> 0,
                           of |-> gpos])
    /\ gpos' = gpos + 1
    /\ UNCHANGED <<epc, gvars>>
    /\ UNCHANGED <<irvars, parsevars, structvars, mainvars, stmtvars, semavars,
                   execvars, cpuvars, switchvars>>

\* One iteration for a variable without one.
EmitBss ==
    /\ epc = "gvars"
    /\ gpos <= Len(gvars)
    /\ ~gvars[gpos].has_strname
    /\ asm' = Append(asm, [section |-> ".bss",
                           label |-> gvars[gpos].labelname,
                           directive |-> ".zero",
                           text |-> <<>>,
                           size |-> gvars[gpos].ctype.size,
                           of |-> gpos])
    /\ gpos' = gpos + 1
    /\ UNCHANGED <<epc, gvars>>
    /\ UNCHANGED <<irvars, parsevars, structvars, mainvars, stmtvars, semavars,
                   execvars, cpuvars, switchvars>>

\* The loop over the global variables is over; the functions follow.
EmitFuns ==
    /\ epc = "gvars"
    /\ gpos > Len(gvars)
    /\ epc' = "funs"
    /\ UNCHANGED <<gvars, gpos, asm>>
    /\ UNCHANGED <<irvars, parsevars, structvars, mainvars, stmtvars, semavars,
                   execvars, cpuvars, switchvars>>

(***************************************************************************)
(* sema.rs: Env::find, maybe_decay and walk.  walk either returns the      *)
(* rewritten node or panics; a result carries ok, the node and the panic   *)
(* message.  Lvar and Gvar are the variable references of this pass.       *)
(***************************************************************************)
Ident(name) == [op |-> "Ident", name |-> name]

Sizeof(lhs) == [op |-> "Sizeof", lhs |-> lhs]

Alignof(lhs) == [op |-> "Alignof", lhs |-> lhs]

new_num(val) == [op |-> "Num", val |-> val]

new_lvar(ctype, offset) == [op |-> "Lvar", ctype |-> ctype, offset |-> offset]

new_gvar(ctype, ident) == [op |-> "Gvar", ctype |-> ctype, ident |-> ident]

new_addr(ctype, lhs) == [op |-> "Addr", ctype |-> ctype, lhs |-> lhs]

new_deref(ctype, lhs) == [op |-> "Deref", ctype |-> ctype, lhs |-> lhs]

new_bit(ctype, ty, lhs, rhs) ==
    [op |-> "BinaryTree", ctype |-> ctype, ty |-> ty, lhs |-> lhs,
     rhs |-> rhs]

new_eq(ctype, lhs, rhs) ==
    [op |-> "EqTree", ctype |-> ctype, lhs |-> lhs, rhs |-> rhs]

Ok(node) == [ok |-> TRUE, node |-> node, msg |-> ""]

Panic(msg) == [ok |-> FALSE, node |-> new_num(0), msg |-> msg]

\* A mutation of checklval: every node passes.
checklval_any(node) == TRUE

\* Node::checklval: a variable reference, a dereference or a member access.
checklval(node) == node.op \in {"Lvar", "Gvar", "Deref", "Dot"}

\* Node::hasctype: the nodes that carry a type.
hasctype(node) ==
    node.op \in {"Lvar", "Gvar", "BinaryTree", "Deref", "Addr", "Dot",
                 "EqTree"}

nodesctype(node) == node.ctype

\* Env::find on a chain of frames, the current one first; a frame maps a
\* name to its Var.
RECURSIVE find(_, _)
find(env, name) ==
    IF env = <<>> THEN NULL_VAR
    ELSE IF name \in DOMAIN Head(env) THEN Head(env)[name]
         ELSE find(Tail(env), name)

maybe_decay(node, decay) ==
    IF node.op \in {"Lvar", "Gvar"}
    THEN IF decay /\ node.ctype.ty = "ARY"
         THEN Ok(new_addr(ptr_to(node.ctype.ary_to), node))
         ELSE Ok(node)
    ELSE Panic("maybe_decay type error")

\* A mutation of binary_ctype: the result type is always int.
binary_ctype_int(ty, lhs2, rhs2) == Ok(INT_TY)

\* walk, the BinaryTree arm: the type of the node from its walked operands.
binary_ctype(ty, lhs2, rhs2) ==
    IF /\ ty \in {"TokenAdd", "TokenSub"}
       /\ hasctype(rhs2)
       /\ nodesctype(rhs2).ty = "PTR"
    THEN IF hasctype(lhs2) /\ nodesctype(lhs2).ty = "PTR"
         THEN Panic("pointer +- pointer is not defind.")
         ELSE Ok(nodesctype(rhs2))
    ELSE IF hasctype(lhs2) THEN Ok(nodesctype(lhs2)) ELSE Ok(INT_TY)

RECURSIVE walk(_, _, _)
walk(node, env, decay) ==
    CASE node.op = "Num" -> Ok(new_num(node.val))
      [] node.op = "BinaryTree" ->
           LET typed(lhs2, rhs2, ct) ==
                   IF ct.ok
                   THEN Ok(new_bit(ct.node, node.ty, lhs2, rhs2))
                   ELSE ct
               both(l, r) ==
                   IF ~l.ok THEN l
                   ELSE IF ~r.ok THEN r
                   ELSE typed(l.node, r.node,
                              binary_ctype(node.ty, l.node, r.node))
           IN both(walk(node.lhs, env, TRUE), walk(node.rhs, env, TRUE))
      [] node.op \in {"Ret", "Expr"} ->
           LET wrap(l) ==
                   IF l.ok THEN Ok([op |-> node.op, lhs |-> l.node]) ELSE l
           IN wrap(walk(node.lhs, env, TRUE))
      [] node.op = "Ident" ->
           LET resolve(var) ==
                   IF var = NULL_VAR THEN Panic("is not defined.")
                   ELSE IF var.is_local
                   THEN maybe_decay(new_lvar(var.ctype, var.offset), decay)
                   ELSE maybe_decay(new_gvar(var.ctype, var.labelname),
                                    decay)
           IN resolve(find(env, node.name))
      [] node.op = "EqTree" ->
           LET both(l, r) ==
                   IF ~l.ok THEN l
                   ELSE IF ~checklval(l.node) THEN Panic("not an lvalue")
                   ELSE IF ~r.ok THEN r
                   ELSE Ok(new_eq(nodesctype(l.node), l.node, r.node))
           IN both(walk(node.lhs, env, FALSE), walk(node.rhs, env, TRUE))
      [] node.op = "Call" ->
           LET walked(ws) ==
                   IF \E i \in DOMAIN ws : ~ws[i].ok
                   THEN ws[Least({ i \in DOMAIN ws : ~ws[i].ok })]
                   ELSE Ok([op |-> "Call", ident |-> node.ident,
                            args |-> [i \in DOMAIN ws |-> ws[i].node]])
           IN walked([i \in DOMAIN node.args |->
                          walk(node.args[i], env, TRUE)])
      [] node.op = "Deref" ->
           LET deref(l) ==
                   IF ~l.ok THEN l
                   ELSE IF hasctype(l.node) /\ nodesctype(l.node).ty = "PTR"
                   THEN Ok(new_deref(nodesctype(l.node).ptr_to, l.node))
                   ELSE Panic("operand must be a pointer.")
           IN deref(walk(node.lhs, env, TRUE))
      [] node.op = "Addr" ->
           LET addr(l) ==
                   IF ~l.ok THEN l
                   ELSE IF ~checklval(l.node) THEN Panic("not an lvalue")
                   ELSE Ok(new_addr(ptr_to(nodesctype(l.node)), l.node))
           IN addr(walk(node.lhs, env, TRUE))
      [] node.op = "Sizeof" ->
           LET sized(l) ==
                   IF ~l.ok THEN l
                   ELSE IF hasctype(l.node)
                   THEN Ok(new_num(nodesctype(l.node).size))
                   ELSE Panic("The size of an untyped value cannot be calculated.")
           IN sized(walk(node.lhs, env, FALSE))
      [] node.op = "Alignof" ->
           LET aligned(l) ==
                   IF ~l.ok THEN l
                   ELSE IF hasctype(l.node)
                   THEN Ok(new_num(nodesctype(l.node).align))
                   ELSE Panic("_Alignof should be used for Node has Ctype.")
           IN aligned(walk(node.lhs, env, FALSE))
      [] OTHER -> Panic("sema error")

\* The scopes the walked statement sits in: a block of main that declares
\* `int x; int arr[2]; int *p;` inside a file that declares
\* `int g; int arr[4];`.
SemaEnv ==
    << ("x" :> Var(INT_TY, 4, TRUE, "x")
        @@ "arr" :> Var(ary_of(INT_TY, 2), 12, TRUE, "arr")
        @@ "p" :> Var(ptr_to(INT_TY), 24, TRUE, "p")),
       ("g" :> Var(INT_TY, 0, FALSE, "g")
        @@ "arr" :> Var(ary_of(INT_TY, 4), 0, FALSE, "arr")) >>

SemaAtoms == { Ident(n) : n \in {"x", "arr", "p", "g", "u"} } \cup { Num(1) }

SemaOperands ==
    SemaAtoms
    \cup { Addr(a) : a \in SemaAtoms }
    \cup { Deref(a) : a \in SemaAtoms }
    \cup { Dot(INT_TY, a) : a \in SemaAtoms }
    \cup { BinaryTree("TokenAdd", Ident("x"), Num(1)) }

SemaPtrOperands ==
    { Ident("x"), Ident("p"), Ident("arr"), Num(1), Addr(Ident("x")),
      Addr(Ident("arr")) }

SemaExprs ==
    SemaOperands
    \cup { Addr(e) : e \in SemaOperands }
    \cup { Sizeof(e) : e \in SemaOperands }
    \cup { Alignof(e) : e \in SemaOperands }
    \cup { EqTree(NULL_TY, e, r) :
             e \in SemaOperands, r \in {Num(1), Ident("arr")} }
    \cup { BinaryTree(ty, a, b) :
             ty \in {"TokenAdd", "TokenSub", "TokenStar"},
             a \in SemaPtrOperands, b \in SemaPtrOperands }
    \cup { Call("f", <<a>>) : a \in SemaAtoms }

SemaInit ==
    /\ semapc = "walk"
    /\ seminput \in { ExprStmt(e) : e \in SemaExprs }
    /\ semresult = Ok(new_num(0))

SemaIdle ==
    /\ semapc = "idle"
    /\ seminput = new_num(0)
    /\ semresult = Ok(new_num(0))

\* sema walks one statement of a function body.
SemaWalk ==
    /\ semapc = "walk"
    /\ \E res \in { walk(seminput, SemaEnv, TRUE) } :
         /\ semresult' = res
         /\ semapc' = IF res.ok THEN "done" ELSE "panic"
    /\ UNCHANGED seminput
    /\ UNCHANGED <<irvars, parsevars, structvars, mainvars, stmtvars,
                   emitvars, execvars, cpuvars, switchvars>>

(***************************************************************************)
(* Running the IR gen_expr makes of one expression.  A register holds a    *)
(* 64-bit value; the operands here stay far from the width.  A register    *)
(* is live from the instruction that writes it to its Kill.  The local     *)
(* variable at rbp-offset is the memory cell of address -offset.           *)
(***************************************************************************)
Vals == -MaxVal .. MaxVal

Limb == 65536

\* `num as usize` for an i32, on a 64-bit target: the sign-extended pattern,
\* as four 16-bit limbs, the least significant first.
as_usize(num) ==
    LET d1 == num \div Limb
        d2 == d1 \div Limb
        d3 == d2 \div Limb
    IN <<num % Limb, d1 % Limb, d2 % Limb, d3 % Limb>>

\* The usize product x * s: the low 64 bits and what was carried out of them.
usize_mul(x, s) ==
    LET c1 == x[1] * s
        c2 == x[2] * s + c1 \div Limb
        c3 == x[3] * s + c2 \div Limb
        c4 == x[4] * s + c3 \div Limb
    IN [limbs |-> <<c1 % Limb, c2 % Limb, c3 % Limb, c4 % Limb>>,
        carry |-> c4 \div Limb]

\* The signed reading of a 64-bit pattern whose magnitude is below 2^15.
as_i64(x) == IF x[4] >= Limb \div 2 THEN x[1] - Limb ELSE x[1]

\* `num as usize * gen_inc_scale(ctype)` does not fit in a usize.
inc_imm_overflows(num, ctype) ==
    usize_mul(as_usize(num), gen_inc_scale(ctype)).carry # 0

\* The lowering of node evaluates an overflowing product.
RECURSIVE gen_overflows(_)
gen_overflows(node) ==
    CASE node.op = "IncDec" ->
            inc_imm_overflows(IF node.selector = 1 THEN 1 ELSE -1, node.ctype)
      [] node.op \in {"LogAnd", "LogOr"} ->
            gen_overflows(node.lhs) \/ gen_overflows(node.rhs)
      [] node.op = "For" ->
            gen_overflows(node.inc) \/ gen_overflows(node.body)
      [] node.op = "Expr" -> gen_overflows(node.lhs)
      [] OTHER -> FALSE

ExecSt0 ==
    [code |-> <<>>, REGNO |-> 1, LABEL |-> ParseLabels, RETURN_LABEL |-> 0,
     RETURN_REG |-> 0]

LogicOps == {"LogAnd", "LogOr"}

\* a && b and a || b, an operand being a number or such an expression.
LogicOperands ==
    { Num(v) : v \in Vals }
        \cup { Binary(op, Num(a), Num(b)) :
                 op \in LogicOps, a \in {0, MaxVal}, b \in {0, -MaxVal} }

LogicExprs ==
    { Binary(op, a, b) : op \in LogicOps, a \in LogicOperands,
                         b \in LogicOperands }

\* The offset of the local variable x from rbp.
ExecOffset == 8

IncDecTypes == {INT_TY, CHAR_TY, ptr_to(CHAR_TY), ptr_to(INT_TY)}

\* x++ and x-- on a local variable.
IncDecExprs ==
    { IncDec(ty, sel, LocalVar(ty, ExecOffset)) :
        ty \in IncDecTypes, sel \in {1, 2} }

ForX == LocalVar(INT_TY, ExecOffset)

ForBodies == {NullStmt, Break(1), Continue, ExprStmt(Num(MaxVal))}

\* for (x = a; x; x--) body, and for (x = a; ; x--) break;
ForStmts ==
    { f \in { For(ExprStmt(EqTree(INT_TY, ForX, Num(a))), cond,
                  ExprStmt(IncDec(INT_TY, 2, ForX)), body, 1) :
                a \in 0 .. MaxVal, cond \in {ForX, NullStmt},
                body \in ForBodies } :
        f.cond = NullStmt => f.body = Break(1) }

\* The position of the label x.
label_pos(code, x) ==
    Least({ i \in DOMAIN code : code[i].op = "IrLabel" /\ code[i].lhs = x })

ExecInit ==
    /\ xpc = "gen"
    /\ xbuild \in {"debug", "release"}
    /\ \/ xnode \in LogicExprs /\ xmem = <<>>
       \/ xnode \in IncDecExprs /\ \E v \in Vals : xmem = (-ExecOffset :> v)
       \/ xnode \in ForStmts /\ xmem = (-ExecOffset :> -MaxVal)
    /\ xmem0 = xmem
    /\ xcode = <<>>
    /\ xres = 0
    /\ xip = 0
    /\ xregs = <<>>
    /\ xran = {}

ExecIdle ==
    /\ xpc = "idle"
    /\ xbuild = "debug"
    /\ xnode = Num(0)
    /\ xmem = <<>>
    /\ xmem0 = <<>>
    /\ xcode = <<>>
    /\ xres = 0
    /\ xip = 0
    /\ xregs = <<>>
    /\ xran = {}

\* gen_stmt on a statement, gen_expr on an expression.
ExecLower(node) ==
    IF node.op = "For" THEN [st |-> gen_stmt(node, ExecSt0), r |-> 0]
    ELSE gen_expr(node, ExecSt0)

\* The lowering of the statement or expression.  The build with overflow
\* checks panics on an overflowing product, the build without them wraps it.
ExecGen ==
    /\ xpc = "gen"
    /\ \E a \in { ExecLower(xnode) } :
          IF panicked(a.st) \/ (xbuild = "debug" /\ gen_overflows(xnode))
          THEN xpc' = "panic" /\ UNCHANGED <<xcode, xres, xip>>
          ELSE /\ xcode' = a.st.code
               /\ xres' = a.r
               /\ xip' = 1
               /\ xpc' = "run"
    /\ UNCHANGED <<xbuild, xnode, xmem, xmem0, xregs, xran>>
    /\ UNCHANGED execrest

\* The instruction at xip is op.
ExecAt(op) ==
    /\ xpc = "run"
    /\ xcode[xip].op = op

\* Control passes to position ip; the code ends after its last instruction.
ExecGoto(ip) ==
    /\ xip' = ip
    /\ xpc' = IF ip > Len(xcode) THEN "done" ELSE "run"
    /\ xran' = xran \cup {xip}
    /\ UNCHANGED <<xbuild, xnode, xcode, xres, xmem0>>
    /\ UNCHANGED execrest

ExecWrite(r, v) == xregs' = (r :> v) @@ xregs

Live(r) == r \in DOMAIN xregs

ExecImm ==
    /\ ExecAt("IrImm")
    /\ ExecWrite(xcode[xip].lhs, xcode[xip].rhs)
    /\ ExecGoto(xip + 1)
    /\ UNCHANGED xmem

ExecMov ==
    /\ ExecAt("IrMov")
    /\ Live(xcode[xip].rhs)
    /\ ExecWrite(xcode[xip].lhs, xregs[xcode[xip].rhs])
    /\ ExecGoto(xip + 1)
    /\ UNCHANGED xmem

\* Unless r, x: control passes to the label x when r holds zero.
ExecUnless ==
    /\ ExecAt("IrUnless")
    /\ Live(xcode[xip].lhs)
    /\ IF xregs[xcode[xip].lhs] = 0
       THEN ExecGoto(label_pos(xcode, xcode[xip].rhs))
       ELSE ExecGoto(xip + 1)
    /\ UNCHANGED <<xregs, xmem>>

ExecJmp ==
    /\ ExecAt("IrJmp")
    /\ ExecGoto(label_pos(xcode, xcode[xip].lhs))
    /\ UNCHANGED <<xregs, xmem>>

ExecLabel ==
    /\ ExecAt("IrLabel")
    /\ ExecGoto(xip + 1)
    /\ UNCHANGED <<xregs, xmem>>

\* Kill r: the register is free again, its value is lost.
ExecKill ==
    /\ ExecAt("IrKill")
    /\ xregs' = [r \in DOMAIN xregs \ {xcode[xip].lhs} |-> xregs[r]]
    /\ ExecGoto(xip + 1)
    /\ UNCHANGED xmem

ExecBpRel ==
    /\ ExecAt("IrBpRel")
    /\ ExecWrite(xcode[xip].lhs, -xcode[xip].rhs)
    /\ ExecGoto(xip + 1)
    /\ UNCHANGED xmem

ExecLoad ==
    /\ ExecAt("IrLoad")
    /\ Live(xcode[xip].rhs)
    /\ xregs[xcode[xip].rhs] \in DOMAIN xmem
    /\ ExecWrite(xcode[xip].lhs, xmem[xregs[xcode[xip].rhs]])
    /\ ExecGoto(xip + 1)
    /\ UNCHANGED xmem

ExecStore ==
    /\ ExecAt("IrStore")
    /\ Live(xcode[xip].lhs) /\ Live(xcode[xip].rhs)
    /\ xmem' = (xregs[xcode[xip].lhs] :> xregs[xcode[xip].rhs]) @@ xmem
    /\ ExecGoto(xip + 1)
    /\ UNCHANGED xregs

\* Add(true) r, k
ExecAdd ==
    /\ ExecAt("IrAdd")
    /\ xcode[xip].imm
    /\ Live(xcode[xip].lhs)
    /\ ExecWrite(xcode[xip].lhs, xregs[xcode[xip].lhs] + xcode[xip].rhs)
    /\ ExecGoto(xip + 1)
    /\ UNCHANGED xmem

\* Sub(true) r, k
ExecSub ==
    /\ ExecAt("IrSub")
    /\ xcode[xip].imm
    /\ Live(xcode[xip].lhs)
    /\ ExecWrite(xcode[xip].lhs, xregs[xcode[xip].lhs] - xcode[xip].rhs)
    /\ ExecGoto(xip + 1)
    /\ UNCHANGED xmem

(***************************************************************************)
(* gen_x86.rs: gen and emit_ir, and the run of the assembly they print on  *)
(* a machine with the sixteen registers, a stack and byte cells.  The      *)
(* directives (.text, .global) are left out; a label is an instruction     *)
(* that does nothing.                                                      *)
(***************************************************************************)
REG8 == <<"r10b", "r11b", "bl", "r12b", "r13b", "r14b", "r15b">>

REG32 == <<"r10d", "r11d", "ebx", "r12d", "r13d", "r14d", "r15d">>

ARGREG64 == <<"rdi", "rsi", "rdx", "rcx", "r8", "r9">>

\* gen_x86.rs reg(size, r)
reg(size, r) ==
    CASE size = 1 -> REG8[r + 1]
      [] size = 4 -> REG32[r + 1]
      [] size = 8 -> REG64[r + 1]

Asm(op, dst, src, imm) == [op |-> op, dst |-> dst, src |-> src, imm |-> imm]

RECURSIVE emit_args(_, _)
\* emit_ir, IrCall: `mov ARGREG64[i], REG64[args[i]]` for i in 0..len
emit_args(args, i) ==
    IF i > Len(args) THEN <<>>
    ELSE <<Asm("mov", ARGREG64[i], REG64[args[i] + 1], 0)>>
             \o emit_args(args, i + 1)

\* A mutation of the IrCall arm: r10 and r11 are not saved around the call.
emit_call_unsaved(ir) ==
    emit_args(ir.args, 1)
        \o <<Asm("movi", "rax", "", 0), Asm("call", ir.name, "", 0),
             Asm("mov", REG64[ir.r0 + 1], "rax", 0)>>

\* emit_ir, IrCall
emit_call(ir) ==
    emit_args(ir.args, 1)
        \o <<Asm("push", "", "r10", 0), Asm("push", "", "r11", 0),
             Asm("movi", "rax", "", 0), Asm("call", ir.name, "", 0),
             Asm("pop", "r11", "", 0), Asm("pop", "r10", "", 0),
             Asm("mov", REG64[ir.r0 + 1], "rax", 0)>>

emit_ir(ir) ==
    CASE ir.op = "IrImm" -> <<Asm("movi", REG64[ir.r0 + 1], "", ir.imm)>>
      [] ir.op = "IrMov" ->
            <<Asm("mov", REG64[ir.r0 + 1], REG64[ir.r2 + 1], 0)>>
      [] ir.op = "IrLoad" ->
            <<Asm("load", reg(ir.size, ir.r0), REG64[ir.r2 + 1], 0)>>
                \o (IF ir.size = 1
                    THEN <<Asm("movzb", REG64[ir.r0 + 1], REG8[ir.r2 + 1], 0)>>
                    ELSE <<>>)
      [] ir.op = "IrCall" -> emit_call(ir)

RECURSIVE emit_irs(_)
emit_irs(irs) ==
    IF irs = <<>> THEN <<>> ELSE emit_ir(Head(irs)) \o emit_irs(Tail(irs))

\* gen
gen(fun) ==
    <<Asm("label", fun.name, "", 0),
      Asm("push", "", "rbp", 0),
      Asm("mov", "rbp", "rsp", 0),
      Asm("subi", "rsp", "", roundup(fun.stacksize, 16)),
      Asm("push", "", "r12", 0), Asm("push", "", "r13", 0),
      Asm("push", "", "r14", 0), Asm("push", "", "r15", 0),
      Asm("label", ".L1", "", 0)>>
        \o emit_irs(fun.irs)
        \o <<Asm("label", ".Lend", "", 0),
             Asm("pop", "r15", "", 0), Asm("pop", "r14", "", 0),
             Asm("pop", "r13", "", 0), Asm("pop", "r12", "", 0),
             Asm("mov", "rsp", "rbp", 0),
             Asm("pop", "rbp", "", 0),
             Asm("ret", "", "", 0)>>

\* The position of the first instruction of the body in gen's output.
BodyStart == 10

\* The registers a function must leave as it found them, and the others.
CalleeSaved == {"rbx", "rbp", "rsp", "r12", "r13", "r14", "r15"}

CallerSaved == {"rax", "rcx", "rdx", "rsi", "rdi", "r8", "r9", "r10", "r11"}

Reg64s == CalleeSaved \cup CallerSaved

RegIdx == 0 .. Len(REG64) - 1

\* The 64-bit register a register name is part of.
Parent(name) ==
    IF name \in Reg64s THEN name
    ELSE REG64[CHOOSE i \in DOMAIN REG64 : REG8[i] = name \/ REG32[i] = name]

Byte == 256

\* The value of a 64-bit register after name, a part of it or all of it, is
\* written: an 8-bit write keeps the upper bits, a 32-bit write clears them.
Written(name, old, v) ==
    IF name \in { REG8[i] : i \in DOMAIN REG8 }
    THEN (old \div Byte) * Byte + (v % Byte)
    ELSE v

\* The stack pointer when the function is entered, and the return address
\* it finds there.
StackTop == 4096

RetAddr == 4000

\* The allocatable register r holds the address DataAddr(r) at entry.
DataAddr(r) == Byte + r

Bytes == {0, 2, MaxByte}

CpuLoads ==
    { [op |-> "IrLoad", size |-> sz, r0 |-> a, r2 |-> b, imm |-> 0,
       name |-> "", args |-> <<>>] :
        sz \in {1, 4, 8}, a \in RegIdx, b \in {0, 2} }

CpuImms ==
    { [op |-> "IrImm", size |-> 0, r0 |-> a, r2 |-> 0, imm |-> MaxByte,
       name |-> "", args |-> <<>>] : a \in RegIdx }

CallOrders == {<<0, 1, 2, 3, 4, 5, 6>>, <<6, 2, 1, 0, 5, 4, 3>>}

\* Calls of at most MaxCallArgs arguments, and of at most the six the
\* register convention has; the result register is none of the arguments'.
CpuCalls ==
    { c \in { [op |-> "IrCall", size |-> 0, r0 |-> d, r2 |-> 0, imm |-> 0,
               name |-> "g", args |-> SubSeq(o, 1, n)] :
                o \in CallOrders,
                n \in { k \in 0 .. MaxCallArgs : k <= Len(ARGREG64) },
                d \in RegIdx } :
        \A i \in DOMAIN c.args : c.args[i] # c.r0 }

CpuFuns ==
    { Function("f", <<ir>>, sz) :
        ir \in CpuLoads \cup CpuImms \cup CpuCalls, sz \in {0, 8} }

CpuInit ==
    /\ cpc = "gen"
    /\ cfun \in CpuFuns
    /\ casm = <<>>
    /\ cip = 0
    /\ cregs0 = [n \in Reg64s |->
                   IF n = "rsp" THEN StackTop
                   ELSE IF \E i \in DOMAIN REG64 : REG64[i] = n
                   THEN DataAddr((CHOOSE i \in DOMAIN REG64 : REG64[i] = n) - 1)
                   ELSE 1]
    /\ cregs = cregs0
    /\ \E b \in Bytes :
          cmem = [a \in {StackTop} \cup { DataAddr(r) : r \in RegIdx } |->
                    IF a = StackTop THEN RetAddr ELSE b]
    /\ ccall = <<>>

CpuIdle ==
    /\ cpc = "idle"
    /\ cfun = Function("", <<>>, 0)
    /\ casm = <<>>
    /\ cip = 0
    /\ cregs0 = <<>>
    /\ cregs = <<>>
    /\ cmem = <<>>
    /\ ccall = <<>>

\* gen prints the function.
CpuGen ==
    /\ cpc = "gen"
    /\ casm' = gen(cfun)
    /\ cip' = 1
    /\ cpc' = "run"
    /\ UNCHANGED <<cfun, cregs0, cregs, cmem, ccall>>
    /\ UNCHANGED cpurest

CpuAt(op) ==
    /\ cpc = "run"
    /\ casm[cip].op = op

CpuStep ==
    /\ cip' = cip + 1
    /\ UNCHANGED <<cpc, cfun, casm, cregs0>>
    /\ UNCHANGED cpurest

CpuWrite(name, v) ==
    cregs' = [cregs EXCEPT ![Parent(name)] = Written(name, @, v)]

CpuLabel ==
    /\ CpuAt("label")
    /\ CpuStep
    /\ UNCHANGED <<cregs, cmem, ccall>>

CpuPush ==
    /\ CpuAt("push")
    /\ cregs' = [cregs EXCEPT !["rsp"] = @ - 8]
    /\ cmem' = ((cregs["rsp"] - 8) :> cregs[casm[cip].src]) @@ cmem
    /\ CpuStep
    /\ UNCHANGED ccall

CpuPop ==
    /\ CpuAt("pop")
    /\ cregs["rsp"] \in DOMAIN cmem
    /\ cregs' = [[cregs EXCEPT !["rsp"] = @ + 8]
                   EXCEPT ![casm[cip].dst] = cmem[cregs["rsp"]]]
    /\ CpuStep
    /\ UNCHANGED <<cmem, ccall>>

CpuMov ==
    /\ CpuAt("mov")
    /\ CpuWrite(casm[cip].dst, cregs[casm[cip].src])
    /\ CpuStep
    /\ UNCHANGED <<cmem, ccall>>

CpuMovImm ==
    /\ CpuAt("movi")
    /\ CpuWrite(casm[cip].dst, casm[cip].imm)
    /\ CpuStep
    /\ UNCHANGED <<cmem, ccall>>

CpuSubImm ==
    /\ CpuAt("subi")
    /\ CpuWrite(casm[cip].dst, cregs[casm[cip].dst] - casm[cip].imm)
    /\ CpuStep
    /\ UNCHANGED <<cmem, ccall>>

\* mov reg, [addr]
CpuLoad ==
    /\ CpuAt("load")
    /\ cregs[casm[cip].src] \in DOMAIN cmem
    /\ CpuWrite(casm[cip].dst, cmem[cregs[casm[cip].src]])
    /\ CpuStep
    /\ UNCHANGED <<cmem, ccall>>

\* movzb r64, r8: the low byte of r8's register, zero-extended.
CpuMovzb ==
    /\ CpuAt("movzb")
    /\ CpuWrite(casm[cip].dst, cregs[Parent(casm[cip].src)] % Byte)
    /\ CpuStep
    /\ UNCHANGED <<cmem, ccall>>

\* call: the callee returns a value in rax, leaves anything in the other
\* caller-saved registers, and keeps the callee-saved registers and the
\* caller's stack.
CpuCall ==
    /\ CpuAt("call")
    /\ \E ret \in {0, MaxByte}, junk \in {0, MaxByte + 1} :
          cregs' = [n \in Reg64s |->
                      IF n = "rax" THEN ret
                      ELSE IF n \in CallerSaved THEN junk
                      ELSE cregs[n]]
    /\ ccall' = [n \in Reg64s |-> cregs[n]]
    /\ CpuStep
    /\ UNCHANGED cmem

CpuRet ==
    /\ CpuAt("ret")
    /\ cpc' = IF cregs["rsp"] \in DOMAIN cmem /\ cmem[cregs["rsp"]] = RetAddr
              THEN "done" ELSE "crash"
    /\ cregs' = [cregs EXCEPT !["rsp"] = @ + 8]
    /\ UNCHANGED <<cip, cfun, casm, cregs0, cmem, ccall>>
    /\ UNCHANGED cpurest

AuxIdle ==
    StmtIdle /\ EmitIdle /\ SemaIdle /\ ExecIdle /\ CpuIdle /\ SwitchIdle

(***************************************************************************)
(* The specifications.                                                     *)
(***************************************************************************)
IrIdle ==
    /\ irpc = "idle"
    /\ funs = <<>>
    /\ nodes = <<>>
    /\ virt = <<>>
    /\ LABEL = 0
    /\ RETURN_LABEL = 0
    /\ RETURN_REG = 0
    /\ REGNO = 1

Init == IrInit /\ ParseIdle /\ StructIdle /\ MainIdle /\ AuxIdle

Next == GenIrFunc \/ GenIrExtern \/ GenIrReturn \/ AllocRegs

Spec == Init /\ [][Next]_vars

InitParse == IrIdle /\ ParseInit /\ StructIdle /\ MainIdle /\ AuxIdle

NextParse ==
    \/ TopEnum \/ TopTypedef \/ TopGlobal \/ TopProto \/ TopFuncBegin
    \/ StmtDecl \/ StmtNull \/ BlockOpen \/ EmptyBlock \/ ForOpen
    \/ BlockClose \/ FuncEnd

SpecParse == InitParse /\ [][NextParse]_vars

\* parse on the programs made of typedefs, function definitions, blocks,
\* local declarations and local typedefs.
NextScope ==
    \/ TopTypedef \/ TopFuncBegin \/ StmtDecl \/ StmtTypedef \/ BlockOpen
    \/ BlockClose \/ FuncEnd

SpecScope == InitParse /\ [][NextScope]_vars

InitStruct == IrIdle /\ ParseIdle /\ StructInit /\ MainIdle /\ AuxIdle

NextStruct == NewStruct

SpecStruct == InitStruct /\ [][NextStruct]_vars

InitMain == IrIdle /\ ParseIdle /\ StructIdle /\ MainInit /\ AuxIdle

NextMain ==
    \/ MainArgs \/ MainTokenize \/ MainParse \/ MainSema \/ MainGenIr
    \/ MainAllocRegs \/ MainGenX86

SpecMain == InitMain /\ [][NextMain]_vars

InitStmt ==
    /\ IrIdle /\ StmtInit /\ StructIdle /\ MainIdle /\ EmitIdle /\ SemaIdle
    /\ ExecIdle /\ CpuIdle /\ SwitchIdle

NextStmt == StmtStart \/ ForInitStart

SpecStmt == InitStmt /\ [][NextStmt]_vars

InitEmit ==
    /\ IrIdle /\ ParseIdle /\ StructIdle /\ MainIdle /\ StmtIdle /\ SemaIdle
    /\ ExecIdle /\ CpuIdle /\ SwitchIdle
    /\ EmitInit

NextEmit == EmitData \/ EmitBss \/ EmitFuns

SpecEmit == InitEmit /\ [][NextEmit]_vars

InitSema ==
    /\ IrIdle /\ ParseIdle /\ StructIdle /\ MainIdle /\ StmtIdle /\ EmitIdle
    /\ ExecIdle /\ CpuIdle /\ SwitchIdle
    /\ SemaInit

NextSema == SemaWalk

SpecSema == InitSema /\ [][NextSema]_vars

InitExec ==
    /\ IrIdle /\ ParseIdle /\ StructIdle /\ MainIdle /\ StmtIdle /\ EmitIdle
    /\ SemaIdle /\ CpuIdle /\ SwitchIdle
    /\ ExecInit

NextExec ==
    \/ ExecGen \/ ExecImm \/ ExecMov \/ ExecUnless \/ ExecJmp \/ ExecLabel
    \/ ExecKill \/ ExecBpRel \/ ExecLoad \/ ExecStore \/ ExecAdd \/ ExecSub

SpecExec == InitExec /\ [][NextExec]_vars

InitCpu ==
    /\ IrIdle /\ ParseIdle /\ StructIdle /\ MainIdle /\ StmtIdle /\ EmitIdle
    /\ SemaIdle /\ ExecIdle /\ SwitchIdle
    /\ CpuInit

NextCpu ==
    \/ CpuGen \/ CpuLabel \/ CpuPush \/ CpuPop \/ CpuMov \/ CpuMovImm
    \/ CpuSubImm \/ CpuLoad \/ CpuMovzb \/ CpuCall \/ CpuRet

SpecCpu == InitCpu /\ [][NextCpu]_vars

InitSwitch ==
    /\ IrIdle /\ ParseIdle /\ StructIdle /\ MainIdle /\ StmtIdle /\ EmitIdle
    /\ SemaIdle /\ ExecIdle /\ CpuIdle
    /\ SwitchInit

NextSwitch == SwitchParse

SpecSwitch == InitSwitch /\ [][NextSwitch]_vars

(***************************************************************************)
(* Properties of the parser, of new_struct and of main.                    *)
(***************************************************************************)
\* x is a multiple of a; the only multiple of 0 is 0.
IsMultiple(x, a) == IF a = 0 THEN x = 0 ELSE x % a = 0

\* y is x rounded up to a: the least multiple of a that is not below x.
RoundsUp(x, a, y) ==
    /\ y >= x
    /\ IsMultiple(y, a)
    /\ \A z \in x..(y - 1) : ~IsMultiple(z, a)

\* C5 as the specification states it: whenever the parser is between two
\* top-level items, every frame pushed was popped and the scope chain is the
\* single global frame.
C5_ScopeChainBalanced == ctl = <<>> => Len(ENV) = 1

\* C6: a push followed at once by a pop gives back the environment: the
\* same frames in the same order with the same bindings.
C6_PushPopIdentity == env_dec(env_inc(ENV)) = ENV

\* `{}` was parsed inside a function whose frame binds its parameters, under
\* a global frame that binds a struct tag and variables.
C6_Witness ==
    /\ lastOp = "EmptyBlock"
    /\ Len(ENV) >= 2
    /\ ENV[1].vars # {}
    /\ ENV[Len(ENV)].tags # {}
    /\ ENV[Len(ENV)].vars # {}

\* The variables ls were laid out one after the other from a running size
\* of 0: each rounds the running size up to its alignment, adds its size
\* and takes the result as its offset and as the new running size.
LaidOut(ls) ==
    \A i \in DOMAIN ls :
        /\ ls[i].before = IF i = 1 THEN 0 ELSE ls[i - 1].offset
        /\ \E y \in ls[i].before..(ls[i].before + 16) :
              /\ RoundsUp(ls[i].before, ls[i].ctype.align, y)
              /\ ls[i].offset = y + ls[i].ctype.size

\* C7 as the specification states it: the parameters and locals of a
\* function are laid out from a running stack size of 0, the function's
\* stack size is the final running size, and the prologue subtracts it
\* rounded up to 16.
C7_StackLayout ==
    /\ LaidOut(locals)
    /\ fnode.defined =>
          /\ LaidOut(fnode.locals)
          /\ fnode.stacksize = IF fnode.locals = <<>> THEN 0
                               ELSE fnode.locals[Len(fnode.locals)].offset
          /\ RoundsUp(fnode.stacksize, 16, prologue_sub(fnode))

\* C8 as the specification states it: the member offsets of a struct do not
\* decrease, each is a multiple of the member's alignment, the struct's
\* alignment is the largest member alignment and its size is the end of the
\* last member rounded up to that alignment.
C8_StructLayout ==
    spc = "done" =>
        /\ \A i \in 1..(Len(sty.members) - 1) :
              sty.members[i].ctype.offset <= sty.members[i + 1].ctype.offset
        /\ \A i \in DOMAIN sty.members :
              IsMultiple(sty.members[i].ctype.offset, sty.members[i].ctype.align)
        /\ \A i \in DOMAIN sty.members : sty.members[i].ctype.align <= sty.align
        /\ \E i \in DOMAIN sty.members : sty.members[i].ctype.align = sty.align
        /\ RoundsUp(sty.members[Len(sty.members)].ctype.offset
                        + sty.members[Len(sty.members)].ctype.size,
                    sty.align, sty.size)

\* <file>, -dump-ir1 <file>, -dump-ir2 <file>, -dump-ir1 -dump-ir2 <file>
AcceptedShape(v) ==
    \/ Len(v) = 2
    \/ Len(v) = 3 /\ v[2] \in {"-dump-ir1", "-dump-ir2"}
    \/ Len(v) = 4 /\ v[2] = "-dump-ir1" /\ v[3] = "-dump-ir2"

\* C9 as the specification states it: a command line of one of the four
\* accepted shapes is compiled, and any other prints the usage line and
\* ends with status 1 before any stage ran.
C9_OnlyFourShapes ==
    mpc # "args" =>
        IF AcceptedShape(argv)
        THEN mpc # "exited" \/ ran # <<>>
        ELSE /\ mpc = "exited"
             /\ exit_status = 1
             /\ stdout = <<Usage>>
             /\ ran = <<>>

\* C10 as the specification states it: a process that ended inside a stage
\* of the pipeline, on a compilation error, ended with status 1.
C10_ErrorsExitOne ==
    mpc = "exited" /\ ran # <<>> /\ ran[Len(ran)] # "gen_x86" => exit_status = 1

\* The first token starts a declaration: a type keyword, or an identifier
\* that the scope chain resolves to a typedef name.
StartsDeclaration(tok, env) ==
    \/ tok.ty \in {"TokenInt", "TokenChar", "TokenVoid", "TokenBool",
                   "TokenStruct", "TokenTypeof", "TokenEnum"}
    \/ /\ tok.ty = "TokenIdent"
       /\ env_find(env, "typedefs", tok.name, NULL_TY) # NULL_TY

\* C11 as the specification states it: at the start of a statement and of a
\* for-init clause the input goes to the declaration parser (for enum, to
\* the enum declaration parser) exactly when the first token is a type
\* keyword or an identifier resolving to a typedef name, and an input that
\* starts with an identifier or a number goes to expr_stmt otherwise.
C11_DeclarationTest ==
    tpc = "done" =>
        /\ taken \in {"declaration", "add_enum"} <=> StartsDeclaration(toks[1], ENV)
        /\ ~StartsDeclaration(toks[1], ENV)
              /\ toks[1].ty \in {"TokenIdent", "TokenNum"} => taken = "expr_stmt"

\* The form of the character c in an .ascii payload: backslash and a
\* letter for the six characters with a backslash form, the character
\* itself if it is printable ASCII or a space, and otherwise a backslash
\* and three octal digits.
EscapedForm(c) ==
    CASE c = 10 -> <<92, 110>>
      [] c = 13 -> <<92, 114>>
      [] c = 9 -> <<92, 116>>
      [] c \in {92, 39, 34} -> <<92, c>>
      [] c \in 32..126 /\ c \notin {92, 39, 34} -> <<c>>
      [] OTHER -> <<92, 48 + (c \div 64), 48 + ((c \div 8) % 8), 48 + (c % 8)>>

RECURSIVE EscapedText(_)
EscapedText(str) ==
    IF str = <<>> THEN <<>> ELSE EscapedForm(Head(str)) \o EscapedText(Tail(str))

StartsWith(text, prefix) ==
    Len(prefix) <= Len(text) /\ SubSeq(text, 1, Len(prefix)) = prefix

\* C13 as the specification states it: the .ascii payload printed for a
\* string begins with the forms of its characters in order, each the
\* backslash form, the character itself, or a backslash and exactly three
\* octal digits.
C13_EscapeForms ==
    \A k \in DOMAIN asm :
        asm[k].directive = ".ascii" =>
            StartsWith(asm[k].text, EscapedText(gvars[asm[k].of].strname))

\* C14 as the specification states it: a global variable with a string
\* payload gets a .data record with .ascii, one without but with an
\* initializer gets a .data record with its initializer directives and is
\* never zero-filled, and any other gets a .bss record with .zero <size>.
C14_GvarForms ==
    \A k \in DOMAIN asm :
        LET g == gvars[asm[k].of]
        IN  IF g.has_strname
            THEN asm[k].section = ".data" /\ asm[k].directive = ".ascii"
            ELSE IF g.has_init
            THEN asm[k].directive # ".zero" /\ asm[k].section # ".bss"
            ELSE /\ asm[k].section = ".bss"
                 /\ asm[k].directive = ".zero"
                 /\ asm[k].size = g.ctype.size

(***************************************************************************)
(* Properties of sema.                                                     *)
(***************************************************************************)
\* The node walk resolves the variable `name` to, before any decay.
VarNode(name) ==
    LET var == find(SemaEnv, name)
    IN IF var.is_local THEN new_lvar(var.ctype, var.offset)
       ELSE new_gvar(var.ctype, var.labelname)

\* The same variable wrapped in the address of its first element.
Decayed(name) ==
    new_addr(ptr_to(VarNode(name).ctype.ary_to), VarNode(name))

ArrayNames ==
    { n \in {"x", "arr", "p", "g"} : find(SemaEnv, n).ctype.ty = "ARY" }

\* The array variables keep their array type as the operand of sizeof and
\* _Alignof and as the left-hand side of an assignment.
UndecayedOperands ==
    \A n \in ArrayNames :
      /\ seminput = ExprStmt(Sizeof(Ident(n)))
           => semresult = Ok(ExprStmt(new_num(VarNode(n).ctype.size)))
      /\ seminput = ExprStmt(Alignof(Ident(n)))
           => semresult = Ok(ExprStmt(new_num(VarNode(n).ctype.align)))
      /\ \A r \in {Num(1), Ident("arr")} :
           seminput = ExprStmt(EqTree(NULL_TY, Ident(n), r))
             => semresult.ok /\ semresult.node.lhs.lhs = VarNode(n)

\* In the other positions an array variable is wrapped in Addr.
DecayedElsewhere ==
    \A n \in ArrayNames :
      /\ seminput = ExprStmt(Ident(n))
           => semresult = Ok(ExprStmt(Decayed(n)))
      /\ seminput = ExprStmt(Call("f", <<Ident(n)>>))
           => semresult.ok /\ semresult.node.lhs.args[1] = Decayed(n)
      /\ seminput = ExprStmt(EqTree(NULL_TY, Ident("x"), Ident(n)))
           => semresult.ok /\ semresult.node.lhs.rhs = Decayed(n)
      /\ seminput = ExprStmt(Deref(Ident(n)))
           => semresult.ok /\ semresult.node.lhs.lhs = Decayed(n)
      /\ \A ty \in {"TokenAdd", "TokenSub", "TokenStar"} :
           seminput = ExprStmt(BinaryTree(ty, Ident(n), Num(1)))
             => semresult.ok /\ semresult.node.lhs.lhs = Decayed(n)

\* C15: the operand of `&`, of sizeof and of _Alignof and the left-hand side
\* of an assignment are walked with decay cleared, so `&arr` is accepted and
\* has the type pointer to the array, and `sizeof(arr)` is the size of the
\* whole array; in every other position an array variable is wrapped in an
\* Addr node of type pointer to element.
C15_DecayCleared ==
    semapc # "walk" =>
      /\ UndecayedOperands
      /\ DecayedElsewhere
      /\ \A n \in ArrayNames :
           seminput = ExprStmt(Addr(Ident(n)))
             => semresult =
                  Ok(ExprStmt(new_addr(ptr_to(VarNode(n).ctype), VarNode(n))))

\* The type of a walked node; a literal is an int.
TypeOf(node) == IF "ctype" \in DOMAIN node THEN node.ctype ELSE INT_TY

\* The statement is an assignment or an address-of.
HasTarget == seminput.op = "Expr" /\ seminput.lhs.op \in {"EqTree", "Addr"}

\* What walking the target of the statement gives: the left-hand side of
\* an assignment is walked without decay, the operand of `&` with it.
WalkedTarget ==
    walk(seminput.lhs.lhs, SemaEnv, seminput.lhs.op = "Addr")

LvalueForms == {"Lvar", "Gvar", "Deref", "Dot"}

IsAddSub ==
    /\ seminput.op = "Expr"
    /\ seminput.lhs.op = "BinaryTree"
    /\ seminput.lhs.ty \in {"TokenAdd", "TokenSub"}

\* C17: for `+` and `-`, sema ends with a fatal error when both walked
\* operands have pointer type, and when only the left one has type Ptr(T)
\* the type of the node is Ptr(T).
C17_PointerArithmetic ==
    (semapc # "walk" /\ IsAddSub) =>
      \E l \in { walk(seminput.lhs.lhs, SemaEnv, TRUE) },
         r \in { walk(seminput.lhs.rhs, SemaEnv, TRUE) } :
        (l.ok /\ r.ok) =>
          /\ (TypeOf(l.node).ty = "PTR" /\ TypeOf(r.node).ty = "PTR")
               => ~semresult.ok
          /\ (TypeOf(l.node).ty = "PTR" /\ TypeOf(r.node).ty # "PTR")
               => /\ semresult.ok
                  /\ semresult.node.lhs.ctype = TypeOf(l.node)
                  /\ semresult.node.lhs.ctype.ty = "PTR"

\* `p - 1` was given the type of p, with p a pointer to int.
C17_Witness ==
    /\ semapc = "done"
    /\ seminput = ExprStmt(BinaryTree("TokenSub", Ident("p"), Num(1)))
    /\ semresult.node.lhs.ctype = ptr_to(INT_TY)

(***************************************************************************)
(* Properties of the scopes, of the label counter and of the register      *)
(* counter.                                                                *)
(***************************************************************************)
\* The binding of name in the innermost frame of env that declares it in
\* its map m, and null where no frame does.
RECURSIVE InnermostBinding(_, _, _, _)
InnermostBinding(env, m, name, null) ==
    IF env = <<>> THEN null
    ELSE IF \E e \in Head(env)[m] : e.key = name
         THEN (CHOOSE e \in Head(env)[m] : e.key = name).val
         ELSE InnermostBinding(Tail(env), m, name, null)

\* C18: a lookup returns the binding of the innermost frame that declares
\* the name, for variables, typedefs and struct tags alike, so that an inner
\* declaration shadows an outer one while its scope is open.
C18_InnermostBinding ==
    /\ \A name \in {"x", "p", "q", "f"} :
         env_find(ENV, "vars", name, NULL_VAR)
           = InnermostBinding(ENV, "vars", name, NULL_VAR)
    /\ env_find(ENV, "typedefs", "T", NULL_TY)
         = InnermostBinding(ENV, "typedefs", "T", NULL_TY)
    /\ env_find(ENV, "tags", "S", NULL_TY)
         = InnermostBinding(ENV, "tags", "S", NULL_TY)

\* The IR of the functions as gen_ir left it.
GeneratedCode ==
    IF irpc = "gen_ir" THEN [i \in DOMAIN funs |-> funs[i].irs] ELSE virt

\* The places of a function's code that define a label gen_ir allocated,
\* and those labels; the labels up to ParseLabels are the parser's (the
\* break labels of the loops and the labels of the string literals).
LabelDefs(code) ==
    { q \in DOMAIN code : code[q].op = "IrLabel" /\ code[q].lhs > ParseLabels }

LabelsOf(code) == { code[q].lhs : q \in LabelDefs(code) }

NumberedFrom(code, first) ==
    RegsIn(code) # {} =>
      \E rs \in { RegsIn(code) } : rs = first .. (first + Cardinality(rs) - 1)

\* C20 as stated: the register numbers of every function start at 1.
C20_StartAtOne ==
    \A rs \in { GeneratedCode } :
      \A i \in DOMAIN rs : NumberedFrom(rs[i], 1)

\* C20: within one function the register numbers handed out increase by
\* one from 2, the counter being reset to 1 at the start of every function
\* and incremented before it is read; neither 0 nor 1 is handed out.
C20_StartAtTwo ==
    /\ REGNO >= 1
    /\ \A rs \in { GeneratedCode } :
         \A i \in DOMAIN rs :
           /\ NumberedFrom(rs[i], 2)
           /\ (irpc = "gen_ir" /\ i = Len(funs) /\ REGNO > 1)
                => REGNO = Greatest(RegsIn(rs[i]))

\* A second function was lowered after one that used several registers,
\* and its registers start at 2 again.
C20_Witness ==
    /\ irpc = "gen_ir"
    /\ Len(funs) = 2
    /\ Cardinality(RegsIn(funs[1].irs)) >= 3
    /\ 2 \in RegsIn(funs[2].irs)
    /\ REGNO = Greatest(RegsIn(funs[2].irs))

(***************************************************************************)
(* Properties of the lowering of statement expressions, of && and ||, of   *)
(* ++ and -- and of the for statement.                                     *)
(***************************************************************************)
\* { ({ 1; }); ({ if (x) return 1; else return 0; });
\*   return ({ return ({ return x; }); }); }
StmtExprBody ==
    CompStmt(<<ExprStmt(StmtExpr1), ExprStmt(StmtExpr2), Ret(StmtExpr3)>>)

\* What StmtExprBody lowers to when the label counter stood at l: the
\* statement expressions get the registers 2, 4, 8 and 9 and the labels
\* l+1, l+2, l+5 and l+6.
StmtExprCode(l) ==
    <<Ir("IrImm", 3, 1), Ir("IrKill", 3, 0), Ir("IrLabel", l + 1, 0),
      Ir("IrKill", 2, 0),
      Ir("IrBpRel", 5, 4), IrMem("IrLoad", 4, 5, 5),
      Ir("IrUnless", 5, l + 3), Ir("IrKill", 5, 0),
      Ir("IrImm", 6, 1), Ir("IrMov", 4, 6), Ir("IrKill", 6, 0),
      Ir("IrJmp", l + 2, 0),
      Ir("IrJmp", l + 4, 0), Ir("IrLabel", l + 3, 0),
      Ir("IrImm", 7, 0), Ir("IrMov", 4, 7), Ir("IrKill", 7, 0),
      Ir("IrJmp", l + 2, 0),
      Ir("IrLabel", l + 4, 0), Ir("IrLabel", l + 2, 0), Ir("IrKill", 4, 0),
      Ir("IrBpRel", 10, 4), IrMem("IrLoad", 4, 10, 10),
      Ir("IrMov", 9, 10), Ir("IrKill", 10, 0), Ir("IrJmp", l + 6, 0),
      Ir("IrLabel", l + 6, 0),
      Ir("IrMov", 8, 9), Ir("IrKill", 9, 0), Ir("IrJmp", l + 5, 0),
      Ir("IrLabel", l + 5, 0),
      Ir("IrRet", 8, 0), Ir("IrKill", 8, 0)>>

\* C21: after a function is lowered, statement expressions included, the
\* return label and the return register are what they were before, 0; in
\* the body of a statement expression a return moves its value into the
\* register of that statement expression and jumps to its label, at every
\* depth; a return outside emits Ret r, then Kill r.
C21_StmtExprRestores ==
    /\ RETURN_LABEL = 0
    /\ RETURN_REG = 0
    /\ \A n \in DOMAIN virt :
         /\ \A i \in DOMAIN virt[n] :
              virt[n][i].op = "IrRet"
                => /\ i < Len(virt[n])
                   /\ virt[n][i + 1] = Ir("IrKill", virt[n][i].lhs, 0)
         /\ nodes[n].body = StmtExprBody
              => \E l \in ParseLabels..LABEL : virt[n] = StmtExprCode(l)

\* gen_ir returned for a program whose second function is StmtExprBody,
\* lowered when the counter had already moved.
C21_Witness ==
    /\ irpc = "alloc_regs"
    /\ Len(nodes) = 2
    /\ nodes[2].body = StmtExprBody
    /\ virt[2] # StmtExprCode(ParseLabels)

\* The value C gives an expression made of numbers, && and ||.
RECURSIVE eval(_)
eval(node) ==
    CASE node.op = "Num" -> node.val
      [] node.op = "LogAnd" ->
            IF eval(node.lhs) # 0 /\ eval(node.rhs) # 0 THEN 1 ELSE 0
      [] node.op = "LogOr" ->
            IF eval(node.lhs) # 0 \/ eval(node.rhs) # 0 THEN 1 ELSE 0

CodeLen(node) == Len(gen_expr(node, ExecSt0).st.code)

\* The positions of b's code in the code of a && b or a || b: a's code and
\* Unless come before it, and for || also Imm, Jmp and the label x.
RhsCode(node) ==
    LET first == CodeLen(node.lhs) + (IF node.op = "LogAnd" THEN 2 ELSE 5)
    IN first .. (first + CodeLen(node.rhs) - 1)

\* b is not to be evaluated: a is zero in a && b, non-zero in a || b.
ShortCircuits(node) ==
    IF node.op = "LogAnd" THEN eval(node.lhs) = 0 ELSE eval(node.lhs) # 0

\* C22: the IR of a && b and of a || b runs to its end; it leaves 1 in the
\* result register when both (for ||: either) of the operands are non-zero
\* and 0 otherwise, whatever the operands' values, and it never executes an
\* instruction of b when a decides the result.
C22_ShortCircuit ==
    xnode.op \in LogicOps =>
        /\ xpc # "panic"
        /\ xpc = "run" => ENABLED NextExec
        /\ ShortCircuits(xnode) => xran \cap RhsCode(xnode) = {}
        /\ xpc = "done" =>
              /\ Live(xres)
              /\ xregs[xres] = eval(xnode)
              /\ xregs[xres] \in {0, 1}

C22_Witness ==
    /\ xpc = "done"
    /\ xnode = Binary("LogOr", Num(MaxVal), Num(-1))
    /\ xregs[xres] = 1
    /\ xip - 1 \in xran
    /\ xran \cap RhsCode(xnode) = {}

\* What x++ or x-- adds to x: d times the size of what a pointer points to.
IncDecStep(node) ==
    (IF node.selector = 1 THEN 1 ELSE -1) * gen_inc_scale(node.ctype)

\* When the code of x++ or x-- has run, x holds its old value plus the step
\* and the result register holds the old value.
PostIncDecValue ==
    (xnode.op = "IncDec" /\ xpc = "done") =>
        /\ xmem[-ExecOffset] = xmem0[-ExecOffset] + IncDecStep(xnode)
        /\ Live(xres)
        /\ xregs[xres] = xmem0[-ExecOffset]

\* C23: the post-increment or post-decrement of an lvalue holding v stores
\* v + d * scale and yields v, and the immediate operands of its Add and Sub
\* are computed without arithmetic overflow, for d = -1 and any scale too.
C23_PostIncDec ==
    /\ PostIncDecValue
    /\ (xnode.op = "IncDec" /\ xpc # "gen") =>
          ~gen_overflows(xnode) /\ xpc # "panic"

(***************************************************************************)
(* Properties of the assembly of a load, of a call and of the prologue    *)
(* and epilogue.                                                           *)
(***************************************************************************)
\* The one IR instruction of the function's body, and whether its
\* instructions have just been executed.
BodyIr == cfun.irs[1]

AfterBody == cpc = "run" /\ cip = BodyStart + Len(emit_ir(BodyIr))

IsByteLoad == cpc # "idle" /\ BodyIr.op = "IrLoad" /\ BodyIr.size = 1

\* The byte at the address the address register held before the load.
ByteRead == cmem[cregs0[REG64[BodyIr.r2 + 1]]] % Byte

\* A byte load into the register that holds the address leaves the byte,
\* zero-extended.
ByteLoadSameReg ==
    (IsByteLoad /\ AfterBody /\ BodyIr.r0 = BodyIr.r2) =>
        cregs[REG64[BodyIr.r0 + 1]] = ByteRead

\* C24: after the assembly of a Load of size 1, whatever the destination
\* and the address register, equal or different, the destination register
\* holds the byte read from memory, zero-extended to 64 bits.
C24_ByteLoad ==
    (IsByteLoad /\ AfterBody) => cregs[REG64[BodyIr.r0 + 1]] = ByteRead

IsCall == cpc # "idle" /\ BodyIr.op = "IrCall"

\* The callee has been entered.
Called == ccall # <<>>

\* C25: for a call of n <= 6 arguments, argument i is in the i-th of rdi,
\* rsi, rdx, rcx, r8, r9 when the callee is entered; r10 and r11 are pushed
\* before the call and popped after it in the reverse order, so that after
\* the call's assembly every allocatable register but the destination holds
\* the value it had before, and the destination holds what the callee
\* returned in rax.
C25_CallSequence ==
    IsCall =>
        /\ Called =>
              \A i \in DOMAIN BodyIr.args :
                  ccall[ARGREG64[i]] = cregs0[REG64[BodyIr.args[i] + 1]]
        /\ AfterBody =>
              /\ Called
              /\ \A r \in RegIdx :
                    r # BodyIr.r0 => cregs[REG64[r + 1]] = cregs0[REG64[r + 1]]
              /\ cregs[REG64[BodyIr.r0 + 1]] = cregs["rax"]
              /\ cregs["rsp"] = ccall["rsp"] + 16

C25_Witness ==
    /\ IsCall
    /\ AfterBody
    /\ Len(BodyIr.args) = Len(ARGREG64)
    /\ ccall["r9"] = cregs0[REG64[BodyIr.args[6] + 1]]
    /\ cregs["r10"] = cregs0["r10"]
    /\ cregs["rcx"] # cregs0["rcx"]
    /\ cregs[REG64[BodyIr.r0 + 1]] = MaxByte

\* The callee-saved registers the allocator may assign.
AllocCalleeSaved == { REG64[i] : i \in DOMAIN REG64 } \cap CalleeSaved

\* The function returned to its caller.
Returned == cpc = "done"

\* The prologue and epilogue keep r12-r15, rbp and the stack pointer.
SavedByGen ==
    Returned =>
        /\ \A n \in {"r12", "r13", "r14", "r15", "rbp"} : cregs[n] = cregs0[n]
        /\ cregs["rsp"] = cregs0["rsp"] + 8

\* C28: every callee-saved register the allocator may assign (rbx and
\* r12-r15) is saved by the prologue and restored by the epilogue, the pops
\* in the reverse order of the pushes: when the function returns, each
\* holds the value it had when the function was entered.
C28_CalleeSaved ==
    Returned => \A n \in AllocCalleeSaved : cregs[n] = cregs0[n]

\* The parts of a for statement's code in the claimed order, with or
\* without a label between the body and the increment; x and y are the two
\* labels gen_stmt allocates first.
ForCode(node, continue_label) ==
    LET x == ParseLabels + 1
        y == ParseLabels + 2
        test(c) == kill(c.r, push(c.st, Ir("IrUnless", c.r, y)))
        cond(s) ==
            IF node.cond.op = "NULL" THEN s ELSE test(gen_expr(node.cond, s))
        init == gen_stmt(node.init, [ExecSt0 EXCEPT !.LABEL = y])
        body == gen_stmt(node.body, cond(label(x, init)))
        mark == [body EXCEPT !.code = @ \o continue_label]
        inc == gen_stmt(node.inc, mark)
    IN inc.code \o <<Ir("IrJmp", x, 0), Ir("IrLabel", y, 0),
                     Ir("IrLabel", node.break_label, 0)>>

\* What gen_stmt makes of a for statement that has no continue in it, and
\* what running it leaves in x: a break leaves without the increment.
ForWithoutContinue ==
    (xnode.op = "For" /\ xnode.body # Continue /\ xpc \in {"run", "done"}) =>
        /\ xcode = ForCode(xnode, <<>>)
        /\ xpc = "run" => ENABLED NextExec
        /\ xpc = "done" =>
              xmem[-ExecOffset] =
                  IF xnode.body = Break(1) /\ xnode.init.lhs.rhs.val # 0
                  THEN xnode.init.lhs.rhs.val
                  ELSE 0

\* C26: the IR of `for (init; cond; inc) body` is, in this order: init, the
\* top label, cond with a branch to the exit when it is zero (no test when
\* cond is absent), body, the continue label, inc, the jump to the top and
\* the break label; a continue in the body is lowered, to a jump that runs
\* inc and then tests cond again.
C26_ForLayout ==
    (xnode.op = "For" /\ xpc # "gen") =>
        /\ xpc # "panic"
        /\ \E c \in 1 .. ParseLabels + 2 :
              xcode = ForCode(xnode, <<Ir("IrLabel", c, 0)>>)

(***************************************************************************)
(* Properties of the case lists of the switches.                           *)
(***************************************************************************)
RECURSIVE DirectCases(_), DirectCasesOf(_), Attached(_), AttachedOf(_)
\* The values of the case labels of a statement that are inside no switch
\* of the statement, in source order.
DirectCases(node) ==
    CASE node.k = "caseof" -> <<node.val>> \o DirectCases(node.body)
      [] node.k = "case" -> <<1>>
      [] OTHER -> <<>>

DirectCasesOf(body) ==
    IF body = <<>> THEN <<>>
    ELSE DirectCases(Head(body)) \o DirectCasesOf(Tail(body))

\* For every switch of a statement, in the order the switches end: the
\* values of the case labels whose innermost enclosing switch it is.
Attached(node) ==
    CASE node.k = "caseof" -> Attached(node.body)
      [] node.k = "switch" ->
            Append(AttachedOf(node.stmts), DirectCasesOf(node.stmts))
      [] OTHER -> <<>>

AttachedOf(body) ==
    IF body = <<>> THEN <<>> ELSE Attached(Head(body)) \o AttachedOf(Tail(body))

Accepted == swpc = "done" /\ swst.status = -1

\* The list attached to a switch holds the values of its own labels, in
\* some order, and the stack of lists is as deep after as before.
CaseListsAsSets ==
    Accepted =>
        /\ swst.SWITCHES = <<>>
        /\ Len(swst.cases) = Len(AttachedOf(swbody))
        /\ \A i \in DOMAIN swst.cases :
              /\ Range(swst.cases[i]) = Range(AttachedOf(swbody)[i])
              /\ Len(swst.cases[i]) = Len(AttachedOf(swbody)[i])

\* C27: for any nesting of switches, the case list attached to a switch
\* when it ends holds exactly the values of the case labels whose innermost
\* enclosing switch is that switch, in source order, and the stack of lists
\* is as deep after the switch as before it.
C27_CaseLists ==
    Accepted =>
        /\ swst.SWITCHES = <<>>
        /\ swst.cases = AttachedOf(swbody)

(***************************************************************************)
(* Properties of the stack layout and of the string literals.              *)
(***************************************************************************)
\* The storage [offset - size, offset) of two variables has no byte in
\* common.
Disjoint(a, b) ==
    \/ a.offset <= b.offset - b.ctype.size
    \/ b.offset <= a.offset - a.ctype.size

\* The variables of a type with an alignment are laid out without overlap.
AlignedNoOverlap ==
    (\A i \in DOMAIN locals : locals[i].ctype.align > 0) =>
        /\ \A i \in DOMAIN locals : locals[i].before <= locals[i].offset
        /\ \A i, j \in DOMAIN locals :
              (i < j /\ locals[i].ctype.size > 0 /\ locals[j].ctype.size > 0)
                  => Disjoint(locals[i], locals[j])

\* C29: within one function, after any sequence of accepted declarations of
\* locals and parameters, those of a type of alignment 0 (void, an unresolved
\* typedef name or struct tag) included, the running stack size never
\* decreases and the storage of two distinct variables of non-zero size does
\* not overlap.
C29_NoOverlap ==
    /\ \A i \in DOMAIN locals : locals[i].before <= locals[i].offset
    /\ \A i, j \in DOMAIN locals :
          (i < j /\ locals[i].ctype.size > 0 /\ locals[j].ctype.size > 0)
              => Disjoint(locals[i], locals[j])

\* The digits of an octal escape at the head of t: at most three.
OctalDigits(t) ==
    LET isdigit(i) == i <= Len(t) /\ t[i] \in 48 .. 55
    IN IF isdigit(1) /\ isdigit(2) /\ isdigit(3) THEN 3
       ELSE IF isdigit(1) /\ isdigit(2) THEN 2
       ELSE IF isdigit(1) THEN 1
       ELSE 0

RECURSIVE OctalValue(_)
OctalValue(t) ==
    IF t = <<>> THEN 0
    ELSE 8 * OctalValue(SubSeq(t, 1, Len(t) - 1)) + (t[Len(t)] - 48)

\* The bytes the assembler lays down for the text of an .ascii directive: a
\* backslash starts an octal escape of one to three digits or a one-letter
\* escape, any other character is itself.
RECURSIVE decode(_)
decode(t) ==
    IF t = <<>> THEN <<>>
    ELSE IF Head(t) # 92 \/ Len(t) = 1 THEN <<Head(t)>> \o decode(Tail(t))
    ELSE LET k == OctalDigits(Tail(t))
             letter == { c \in DOMAIN BACKSLASH_ESCAPED :
                           BACKSLASH_ESCAPED[c] = t[2] }
         IN IF k > 0
            THEN <<OctalValue(SubSeq(t, 2, k + 1)) % Byte>>
                     \o decode(SubSeq(t, k + 2, Len(t)))
            ELSE <<IF letter = {} THEN t[2] ELSE CHOOSE c \in letter : TRUE>>
                     \o decode(SubSeq(t, 3, Len(t)))

\* The records of the string literals printed so far.
AsciiRecords == { i \in DOMAIN asm : asm[i].directive = ".ascii" }

\* What the emitter prints for a string literal decodes to the payload
\* followed by two zero bytes.
TwoTerminators ==
    \A i \in AsciiRecords :
        decode(asm[i].text) = gvars[asm[i].of].strname \o <<0, 0>>

\* C30: for a string literal of n bytes, whose global has the type
\* char[n+1], the text of the .ascii directive decodes to exactly n+1 bytes:
\* the n bytes of the payload, in order, and a single zero after them.
C30_OneTerminator ==
    \A i \in AsciiRecords :
        /\ gvars[asm[i].of].ctype.size = Len(gvars[asm[i].of].strname) + 1
        /\ decode(asm[i].text) = gvars[asm[i].of].strname \o <<0>>

====
